---------------------------- MODULE Spec2Model ----------------------------
(***************************************************************************)
(* The knowledge-graph service of visual-flow (src/services/ai.ts): the    *)
(* template registry, the generic generator, validateGraphData and the     *)
(* facade fetchGraphData, and parseGraphDataResponse, over a small         *)
(* universe of JavaScript values.                                          *)
(*                                                                         *)
(* A JavaScript string is the sequence of its characters, each character a *)
(* one-character TLA+ string; a character outside ASCII is written by its  *)
(* code point ("U+00C9").  A number is an integer count of ticks, one tick *)
(* being 1/RandomSteps, the spacing of the doubles an importance can be.   *)
(***************************************************************************)
EXTENDS Integers, Sequences, FiniteSets, TLC

VARIABLES
  registry,   \* DUMMY_DATA_TEMPLATES, the module-level template registry
  calls,      \* fetchGraphData: one record per call, in call order
  heap,       \* the graph objects handed to callers, by reference
  topic,      \* generateGenericGraphData: its argument
  generated,  \* generateGenericGraphData: what it returned
  data,       \* validateGraphData: its argument
  verdict,    \* validateGraphData: the outcome and the checks it performed
  response,   \* parseGraphDataResponse: its argument, a text
  parsed,     \* parseGraphDataResponse: what it returned or threw
  hook,       \* useGraphData: the state of one hook instance and what its callbacks hold
  viewer      \* GalaxyViewer: its data, the node selected and the panel it shows

vars ==
  <<registry, calls, heap, topic, generated, data, verdict, response, parsed, hook, viewer>>

---------------------------------------------------------------------------
(* Bounds of the model. *)

\* The draws of Math.random(): k / RandomSteps for k in 0 .. RandomSteps - 1, and
\* the greatest value it can return.
RandomSteps == 2
\* Longest topic string enumerated over TopicChars.
MaxTopicLen == 2
\* fetchGraphData calls in one behaviour.
MaxCalls == 2
\* In-place edits callers make to the graph objects they received.
MaxEdits == 1
\* Nodes plus links of a candidate graph handed to the validator.
MaxItems == 3

---------------------------------------------------------------------------
(* JavaScript values. *)

Undefined == [t |-> "undefined"]
Null      == [t |-> "null"]
Bool(b)   == [t |-> "boolean", b |-> b]
Str(s)    == [t |-> "string", s |-> s]
Num(n)    == [t |-> "number", n |-> n]
Arr(a)    == [t |-> "array", a |-> a]
Obj(f)    == [t |-> "object", f |-> f]

\* The number n, in ticks.
Number(n) == Num(n * RandomSteps)

\* typeof v
TypeOf(v) == IF v.t \in {"array", "null"} THEN "object" ELSE v.t

\* !v
Falsy(v) ==
  \/ v.t \in {"undefined", "null"}
  \/ v.t = "string" /\ v.s = <<>>
  \/ v.t = "number" /\ v.n = 0
  \/ v.t = "boolean" /\ ~v.b

\* Array.isArray(v)
IsArray(v) == v.t = "array"

\* Reading a property of undefined or null throws a TypeError.
CanRead(v) == v.t \notin {"undefined", "null"}

\* v[k] for a value whose properties can be read: an own field of an object,
\* undefined for a field the value does not have.
Get(v, k) ==
  IF v.t = "object" /\ k \in DOMAIN v.f THEN v.f[k] ELSE Undefined

\* The decimal digits of a natural number.
RECURSIVE Digits(_)
Digits(n) ==
  LET d == <<"0", "1", "2", "3", "4", "5", "6", "7", "8", "9">>[(n % 10) + 1]
  IN IF n < 10 THEN <<d>> ELSE Digits(n \div 10) \o <<d>>

\* String(v), as a template literal `${v}` converts v.
ToStr(v) ==
  CASE v.t = "string" -> v.s
    [] v.t = "number" /\ v.n % RandomSteps = 0 /\ v.n >= 0 -> Digits(v.n \div RandomSteps)
    [] v.t = "undefined" -> <<"u","n","d","e","f","i","n","e","d">>
    [] v.t = "null" -> <<"n","u","l","l">>
    [] v.t = "object" -> <<"[","o","b","j","e","c","t"," ","O","b","j","e","c","t","]">>

---------------------------------------------------------------------------
(* Strings: String.prototype.toLowerCase and replace(/\s+/g, '-'). *)

UpperCaseLetters ==
  <<"A","B","C","D","E","F","G","H","I","J","K","L","M",
    "N","O","P","Q","R","S","T","U","V","W","X","Y","Z","U+00C9">>
LowerCaseLetters ==
  <<"a","b","c","d","e","f","g","h","i","j","k","l","m",
    "n","o","p","q","r","s","t","u","v","w","x","y","z","U+00E9">>

\* The characters the regular expression class \s matches (those the model uses):
\* space, tab, line feed and the no-break space.
WhiteSpace == {" ", "\t", "\n", "U+00A0"}

ToLowerChar(c) ==
  IF \E i \in DOMAIN UpperCaseLetters : UpperCaseLetters[i] = c
  THEN LowerCaseLetters[CHOOSE i \in DOMAIN UpperCaseLetters : UpperCaseLetters[i] = c]
  ELSE c

\* s.toLowerCase()
ToLowerCase(s) == [i \in DOMAIN s |-> ToLowerChar(s[i])]

\* s.replace(/\s+/g, '-'): every maximal run of white space becomes one hyphen.
ReplaceWhiteSpace(s) ==
  LET R[i \in 0 .. Len(s)] ==
        IF i = 0 THEN <<>>
        ELSE IF s[i] \notin WhiteSpace THEN Append(R[i - 1], s[i])
        ELSE IF i > 1 /\ s[i - 1] \in WhiteSpace THEN R[i - 1]
        ELSE Append(R[i - 1], "-")
  IN R[Len(s)]

\* topic.toLowerCase().replace(/\s+/g, '-')
NormalizeTopic(s) == ReplaceWhiteSpace(ToLowerCase(s))

---------------------------------------------------------------------------
(* Graph objects. *)

GraphObj(nodes, links) == Obj([nodes |-> Arr(nodes), links |-> Arr(links)])

NodeObj(id, name, val, category, description) ==
  Obj([id |-> id, name |-> name, val |-> val, category |-> category,
       description |-> description])

LinkObj(source, target, value, label) ==
  Obj([source |-> source, target |-> target, value |-> value, label |-> label])

\* A node and a link of a template literal: string fields and integer numbers.
TNode(id, name, val, category, description) ==
  NodeObj(Str(id), Str(name), Number(val), Str(category), Str(description))
TLink(source, target, value, label) ==
  LinkObj(Str(source), Str(target), Number(value), Str(label))

---------------------------------------------------------------------------
(* generateGenericGraphData (ai.ts 912-980). *)

\* A list of primary concepts one entry short.
primaryConceptsWithoutLast ==
  << <<"F","u","n","d","a","m","e","n","t","a","l","s">>,
     <<"C","o","r","e"," ","C","o","n","c","e","p","t","s">>,
     <<"A","p","p","l","i","c","a","t","i","o","n","s">>,
     <<"T","o","o","l","s"," ","&"," ","R","e","s","o","u","r","c","e","s">>,
     <<"A","d","v","a","n","c","e","d"," ","T","o","p","i","c","s">> >>

primaryConcepts ==
  << <<"F","u","n","d","a","m","e","n","t","a","l","s">>,
     <<"C","o","r","e"," ","C","o","n","c","e","p","t","s">>,
     <<"A","p","p","l","i","c","a","t","i","o","n","s">>,
     <<"T","o","o","l","s"," ","&"," ","R","e","s","o","u","r","c","e","s">>,
     <<"A","d","v","a","n","c","e","d"," ","T","o","p","i","c","s">>,
     <<"B","e","s","t"," ","P","r","a","c","t","i","c","e","s">> >>

\* The sub-concepts the inner loop creates for each primary concept.
SubConceptsPerConcept == 3

\* The draws of one run: draw j is the Math.random() of the j-th node pushed after
\* the root: k below RandomSteps for k / RandomSteps, and RandomSteps for the
\* greatest double below 1.
NodesAfterRoot == Len(primaryConcepts) * (1 + SubConceptsPerConcept)
DrawPatterns ==
  { [j \in 1 .. NodesAfterRoot |-> (a * j + b) % (RandomSteps + 1)] :
      a \in 0 .. RandomSteps, b \in 0 .. RandomSteps }

\* `${centralId}-concept-${nodeCounter}`
ConceptId(centralId, nodeCounter) ==
  centralId \o <<"-","c","o","n","c","e","p","t","-">> \o Digits(nodeCounter)

\* A sub-concept id without the counter.
SubConceptIdUncounted(centralId, nodeCounter) ==
  centralId \o <<"-","s","u","b">>

\* `${centralId}-sub-${nodeCounter}`
SubConceptId(centralId, nodeCounter) ==
  centralId \o <<"-","s","u","b","-">> \o Digits(nodeCounter)

\* 70 + Math.random() * 20 and 40 + Math.random() * 30, in ticks.
\* The numbers are doubles.  A tick is the spacing of the doubles in [64, 128)
\* (2^-46); Math.random() returns multiples of 2^-53, a 128th of a tick, below 1.
\* The arithmetic is done in these 128ths: every product and every sum is rounded
\* to the nearest double, ties to the even significand.
DrawsPerTick == 128
Fine(n) == n * RandomSteps * DrawsPerTick
DrawOf(k) == IF k = RandomSteps THEN Fine(1) - 1 ELSE k * DrawsPerTick

\* The spacing of the doubles in the binade [2^e, 2^(e+1)) that holds x.
RECURSIVE SpacingFrom(_, _, _)
SpacingFrom(x, lower, spacing) ==
  IF spacing = 1 \/ x >= lower THEN spacing
  ELSE SpacingFrom(x, lower \div 2, spacing \div 2)
Spacing(x) == SpacingFrom(x, Fine(64), DrawsPerTick)

RoundToDouble(x) ==
  LET s == Spacing(x)
      below == (x \div s) * s
      rest == x - below
  IN IF 2 * rest < s THEN below
     ELSE IF 2 * rest > s THEN below + s
     ELSE IF (below \div s) % 2 = 0 THEN below ELSE below + s

\* base + Math.random() * width for the draw k; the draws of the model give whole
\* ticks.
RandomVal(base, width, k) ==
  Num(RoundToDouble(Fine(base) + RoundToDouble(width * DrawOf(k))) \div DrawsPerTick)

ConceptVal(k) == RandomVal(70, 20, k)
\* A leaf importance drawn from a band as wide as 40.
SubConceptValWide(k) == RandomVal(40, 40, k)
SubConceptVal(k) == RandomVal(40, 30, k)

\* A link pushed the other way round: from the new node to its parent.
GenericLinkReversed(parentId, childId, value) ==
  LinkObj(Str(childId), Str(parentId), Number(value),
          Str(<<"i","n","c","l","u","d","e","s">>))

\* The link pushed for a node: source is the parent's id, target the new node's.
GenericLink(parentId, childId, value) ==
  LinkObj(Str(parentId), Str(childId), Number(value),
          Str(<<"i","n","c","l","u","d","e","s">>))

\* The inner loop, for (let i = 0; i < 3; i++), from i on; st holds nodes, links
\* and nodeCounter.
RECURSIVE SubConceptLoop(_, _, _, _, _, _, _)
SubConceptLoop(st, t, centralId, concept, conceptId, draws, i) ==
  IF i >= SubConceptsPerConcept THEN st
  ELSE
    LET subConceptId == SubConceptId(centralId, st.nodeCounter)
        counter == st.nodeCounter + 1
        node == NodeObj(Str(subConceptId),
                        Str(concept \o <<" ","D","e","t","a","i","l"," ">> \o Digits(i + 1)),
                        SubConceptVal(draws[counter]),
                        Str(<<"c","o","n","c","e","p","t">>),
                        Str(<<"S","p","e","c","i","f","i","c"," ","a","s","p","e","c","t"," ","o","f"," ">>
                            \o concept))
    IN SubConceptLoop([nodes |-> Append(st.nodes, node),
                       links |-> Append(st.links, GenericLink(conceptId, subConceptId, 10)),
                       nodeCounter |-> counter],
                      t, centralId, concept, conceptId, draws, i + 1)

\* The outer loop, for (const concept of primaryConcepts), from the c-th on.
RECURSIVE ConceptLoop(_, _, _, _, _)
ConceptLoop(st, t, centralId, draws, c) ==
  IF c > Len(primaryConcepts) THEN st
  ELSE
    LET concept == primaryConcepts[c]
        conceptId == ConceptId(centralId, st.nodeCounter)
        counter == st.nodeCounter + 1
        node == NodeObj(Str(conceptId), Str(concept), ConceptVal(draws[counter]),
                        Str(<<"c","o","n","c","e","p","t">>),
                        Str(concept \o <<" ","r","e","l","a","t","e","d"," ","t","o"," ">> \o t))
        pushed == [nodes |-> Append(st.nodes, node),
                   links |-> Append(st.links, GenericLink(centralId, conceptId, 12)),
                   nodeCounter |-> counter]
    IN ConceptLoop(SubConceptLoop(pushed, t, centralId, concept, conceptId, draws, 0),
                   t, centralId, draws, c + 1)

\* generateGenericGraphData(topic), with the draws Math.random() makes.
generateGenericGraphData(t, draws) ==
  LET centralId == NormalizeTopic(t)
      root == NodeObj(Str(centralId), Str(t), Number(100), Str(<<"t","o","p","i","c">>),
                      Str(<<"C","o","m","p","r","e","h","e","n","s","i","v","e"," ",
                            "k","n","o","w","l","e","d","g","e"," ","g","r","a","p","h"," ",
                            "f","o","r"," ">> \o t))
      st == ConceptLoop([nodes |-> <<root>>, links |-> <<>>, nodeCounter |-> 0],
                        t, centralId, draws, 1)
  IN GraphObj(st.nodes, st.links)

---------------------------------------------------------------------------
(* validateGraphData (ai.ts 821-875).  The result holds the outcome, the value
   returned or the error thrown, and the checks performed, in order. *)

Returned(v) == [type |-> "return", code |-> v, arg |-> <<>>]
Error(message, arg) == [type |-> "Error", code |-> message, arg |-> arg]
TypeError == [type |-> "TypeError",
              code |-> "Cannot read properties of undefined or null", arg |-> <<>>]

\* One check of the validator: which one, and on which element (0: the graph).
Check(name, index) == [check |-> name, index |-> index]

\* What a step or the whole validation ends with: the outcome and the checks made.
Abort(outcome, trace) == [outcome |-> outcome, trace |-> trace]

\* A set that claims to hold every id.
HasAnything(nodeIds, v) == TRUE

\* nodeIds.has(v): nodeIds holds the string ids added so far.
Has(nodeIds, v) == v \in nodeIds

\* The body of for (const link of data.links) for the j-th link: the error it
\* throws, or Returned("next") when the loop goes on, and the checks it performed.
CheckLink(link, j, nodeIds) ==
  LET source == Get(link, "source")
      target == Get(link, "target")
      sourceId == IF TypeOf(source) = "string" THEN source ELSE Get(source, "id")
      targetId == IF TypeOf(target) = "string" THEN target ELSE Get(target, "id")
      t1 == <<Check("link.endpoints", j)>>
      t2 == Append(t1, Check("link.source", j))
      t3 == Append(t2, Check("link.target", j))
  IN CASE ~CanRead(link) -> Abort(TypeError, t1)
       [] CanRead(link) /\ TypeOf(source) # "string" /\ ~CanRead(source) -> Abort(TypeError, t1)
       [] CanRead(link) /\ TypeOf(target) # "string" /\ ~CanRead(target) -> Abort(TypeError, t1)
       [] OTHER ->
            IF Falsy(sourceId) \/ Falsy(targetId)
              THEN Abort(Error("Invalid link: source and target must be specified", <<>>), t1)
            ELSE IF ~Has(nodeIds, sourceId)
              THEN Abort(Error("Invalid link: source node ${sourceId} not found in nodes",
                               ToStr(sourceId)), t2)
            ELSE IF ~Has(nodeIds, targetId)
              THEN Abort(Error("Invalid link: target node ${targetId} not found in nodes",
                               ToStr(targetId)), t3)
            ELSE Abort(Returned("next"), t3)

\* The sequences ss[lo], ..., ss[hi] joined.
RECURSIVE Concat(_, _, _)
Concat(ss, lo, hi) ==
  IF lo > hi THEN <<>>
  ELSE IF lo = hi THEN ss[lo]
  ELSE LET mid == (lo + hi) \div 2
       IN Concat(ss, lo, mid) \o Concat(ss, mid + 1, hi)

\* A for-of loop whose body may throw: steps[k] is what the body does on the k-th
\* element if the loop gets there.  The loop ends at the first element whose body
\* throws (0: at none), and has then performed the checks of every element up to it.
FirstThrow(steps) ==
  IF \E k \in DOMAIN steps : steps[k].outcome.type # "return"
  THEN CHOOSE k \in DOMAIN steps :
         /\ steps[k].outcome.type # "return"
         /\ \A m \in 1 .. k - 1 : steps[m].outcome.type = "return"
  ELSE 0
ChecksUpTo(steps, k) == Concat(<<>> \o [m \in DOMAIN steps |-> steps[m].trace], 1, k)

\* for (const link of data.links) { ... }; return true.  nodeIds is complete when
\* the loop starts.
LinkLoop(links, nodeIds, trace) ==
  LET steps == <<>> \o [j \in DOMAIN links |-> CheckLink(links[j], j, nodeIds)]
      first == FirstThrow(steps)
  IN IF first # 0 THEN Abort(steps[first].outcome, trace \o ChecksUpTo(steps, first))
     ELSE Abort(Returned("true"), trace \o ChecksUpTo(steps, Len(links)))

\* A range check that excludes the bounds 0 and 100.
ValOutOfRangeStrict(val) ==
  TypeOf(val) # "number" \/ val.n <= 0 \/ val.n >= 100 * RandomSteps

\* typeof node.val !== 'number' || node.val < 0 || node.val > 100
ValOutOfRange(val) ==
  TypeOf(val) # "number" \/ val.n < 0 \/ val.n > 100 * RandomSteps

\* A loop body that checks a node's importance before its name.
CheckNodeValFirst(node, i, nodeIds) ==
  LET id == Get(node, "id")
      name == Get(node, "name")
      val == Get(node, "val")
      category == Get(node, "category")
      t1 == <<Check("node.id", i)>>
      t2 == Append(t1, Check("node.val", i))
      t3 == Append(t2, Check("node.name", i))
      t4 == Append(t3, Check("node.category", i))
      t5 == Append(t4, Check("node.duplicate", i))
  IN IF ~CanRead(node) THEN Abort(TypeError, t1)
     ELSE IF Falsy(id) \/ TypeOf(id) # "string"
       THEN Abort(Error("Invalid node: missing or non-string id", <<>>), t1)
     ELSE IF ValOutOfRange(val)
       THEN Abort(Error("Invalid node ${node.id}: val must be a number between 0-100",
                        ToStr(id)), t2)
     ELSE IF Falsy(name) \/ TypeOf(name) # "string"
       THEN Abort(Error("Invalid node ${node.id}: missing or non-string name", ToStr(id)), t3)
     ELSE IF Falsy(category) \/ TypeOf(category) # "string"
       THEN Abort(Error("Invalid node ${node.id}: missing or non-string category",
                        ToStr(id)), t4)
     ELSE IF Has(nodeIds, id)
       THEN Abort(Error("Duplicate node id: ${node.id}", ToStr(id)), t5)
     ELSE Abort(Returned("next"), t5)

\* The body of for (const node of data.nodes) for the i-th node: the error it
\* throws, or Returned("next") when the loop goes on to nodeIds.add(node.id), and
\* the checks it performed.
CheckNode(node, i, nodeIds) ==
  LET id == Get(node, "id")
      name == Get(node, "name")
      val == Get(node, "val")
      category == Get(node, "category")
      t1 == <<Check("node.id", i)>>
      t2 == Append(t1, Check("node.name", i))
      t3 == Append(t2, Check("node.val", i))
      t4 == Append(t3, Check("node.category", i))
      t5 == Append(t4, Check("node.duplicate", i))
  IN IF ~CanRead(node) THEN Abort(TypeError, t1)
     ELSE IF Falsy(id) \/ TypeOf(id) # "string"
       THEN Abort(Error("Invalid node: missing or non-string id", <<>>), t1)
     ELSE IF Falsy(name) \/ TypeOf(name) # "string"
       THEN Abort(Error("Invalid node ${node.id}: missing or non-string name", ToStr(id)), t2)
     ELSE IF ValOutOfRange(val)
       THEN Abort(Error("Invalid node ${node.id}: val must be a number between 0-100",
                        ToStr(id)), t3)
     ELSE IF Falsy(category) \/ TypeOf(category) # "string"
       THEN Abort(Error("Invalid node ${node.id}: missing or non-string category",
                        ToStr(id)), t4)
     ELSE IF Has(nodeIds, id)
       THEN Abort(Error("Duplicate node id: ${node.id}", ToStr(id)), t5)
     ELSE Abort(Returned("next"), t5)

\* A node loop that never adds an id to nodeIds.
NodeLoopWithoutAdd(nodes, links, trace) ==
  LET steps == <<>> \o [i \in DOMAIN nodes |-> CheckNode(nodes[i], i, {})]
      first == FirstThrow(steps)
  IN IF first # 0 THEN Abort(steps[first].outcome, trace \o ChecksUpTo(steps, first))
     ELSE LinkLoop(links, {}, trace \o ChecksUpTo(steps, Len(nodes)))

\* for (const node of data.nodes) { ... }, then the links.  When the body runs on
\* the i-th node, nodeIds holds the ids nodeIds.add put there for the nodes before it.
NodeLoop(nodes, links, trace) ==
  LET ids == <<>> \o [k \in DOMAIN nodes |-> Get(nodes[k], "id")]
      IdsBefore(i) == {ids[k] : k \in 1 .. i - 1}
      steps == <<>> \o [i \in DOMAIN nodes |-> CheckNode(nodes[i], i, IdsBefore(i))]
      first == FirstThrow(steps)
  IN IF first # 0 THEN Abort(steps[first].outcome, trace \o ChecksUpTo(steps, first))
     ELSE LinkLoop(links, IdsBefore(Len(nodes) + 1), trace \o ChecksUpTo(steps, Len(nodes)))

\* A validator without the check that the node list is non-empty.
validateWithoutEmptyCheck(d) ==
  LET nodes == Get(d, "nodes")
      links == Get(d, "links")
      t1 == <<Check("nodes.array", 0)>>
      t2 == Append(t1, Check("links.array", 0))
  IN IF ~CanRead(d) THEN Abort(TypeError, t1)
     ELSE IF Falsy(nodes) \/ ~IsArray(nodes)
       THEN Abort(Error("Invalid graph data: missing or invalid nodes array", <<>>), t1)
     ELSE IF Falsy(links) \/ ~IsArray(links)
       THEN Abort(Error("Invalid graph data: missing or invalid links array", <<>>), t2)
     ELSE NodeLoop(nodes.a, links.a, t2)

validateGraphData(d) ==
  LET nodes == Get(d, "nodes")
      links == Get(d, "links")
      t1 == <<Check("nodes.array", 0)>>
      t2 == Append(t1, Check("links.array", 0))
      t3 == Append(t2, Check("nodes.nonempty", 0))
  IN IF ~CanRead(d) THEN Abort(TypeError, t1)
     ELSE IF Falsy(nodes) \/ ~IsArray(nodes)
       THEN Abort(Error("Invalid graph data: missing or invalid nodes array", <<>>), t1)
     ELSE IF Falsy(links) \/ ~IsArray(links)
       THEN Abort(Error("Invalid graph data: missing or invalid links array", <<>>), t2)
     ELSE IF Len(nodes.a) = 0
       THEN Abort(Error("Invalid graph data: nodes array is empty", <<>>), t3)
     ELSE NodeLoop(nodes.a, links.a, t3)

---------------------------------------------------------------------------
(* DUMMY_DATA_TEMPLATES (ai.ts 72-815): the graph literals. *)

(* DUMMY_DATA_TEMPLATES['machine-learning'] (ai.ts 73-369): the object literal the arrow
   function builds, nodes and links in source order. *)
TemplateMachineLearning ==
  GraphObj(<<
    TNode(<<"m","a","c","h","i","n","e","-","l","e","a","r","n","i","n","g">>, <<"M","a","c","h","i","n","e"," ","L","e","a","r","n","i","n","g">>, 100, <<"t","o","p","i","c">>, <<"C","o","m","p","u","t","a","t","i","o","n","a","l"," ","f","i","e","l","d"," ","e","n","a","b","l","i","n","g"," ","s","y","s","t","e","m","s"," ","t","o"," ","l","e","a","r","n"," ","f","r","o","m"," ","d","a","t","a"," ","a","n","d"," ","m","a","k","e"," ","p","r","e","d","i","c","t","i","o","n","s">>),
    TNode(<<"s","u","p","e","r","v","i","s","e","d","-","l","e","a","r","n","i","n","g">>, <<"S","u","p","e","r","v","i","s","e","d"," ","L","e","a","r","n","i","n","g">>, 85, <<"c","o","n","c","e","p","t">>, <<"T","r","a","i","n","i","n","g"," ","a","l","g","o","r","i","t","h","m","s"," ","u","s","i","n","g"," ","l","a","b","e","l","e","d"," ","e","x","a","m","p","l","e","s"," ","t","o"," ","p","r","e","d","i","c","t"," ","o","u","t","c","o","m","e","s">>),
    TNode(<<"u","n","s","u","p","e","r","v","i","s","e","d","-","l","e","a","r","n","i","n","g">>, <<"U","n","s","u","p","e","r","v","i","s","e","d"," ","L","e","a","r","n","i","n","g">>, 80, <<"c","o","n","c","e","p","t">>, <<"F","i","n","d","i","n","g"," ","p","a","t","t","e","r","n","s"," ","i","n"," ","u","n","l","a","b","e","l","e","d"," ","d","a","t","a"," ","w","i","t","h","o","u","t"," ","p","r","e","d","e","f","i","n","e","d"," ","t","a","r","g","e","t","s">>),
    TNode(<<"n","e","u","r","a","l","-","n","e","t","w","o","r","k","s">>, <<"N","e","u","r","a","l"," ","N","e","t","w","o","r","k","s">>, 90, <<"c","o","n","c","e","p","t">>, <<"I","n","t","e","r","c","o","n","n","e","c","t","e","d"," ","l","a","y","e","r","s"," ","o","f"," ","n","o","d","e","s"," ","i","n","s","p","i","r","e","d"," ","b","y"," ","b","i","o","l","o","g","i","c","a","l"," ","n","e","u","r","o","n","s">>),
    TNode(<<"d","e","e","p","-","l","e","a","r","n","i","n","g">>, <<"D","e","e","p"," ","L","e","a","r","n","i","n","g">>, 88, <<"c","o","n","c","e","p","t">>, <<"U","s","i","n","g"," ","m","u","l","t","i","-","l","a","y","e","r"," ","n","e","u","r","a","l"," ","n","e","t","w","o","r","k","s"," ","f","o","r"," ","c","o","m","p","l","e","x"," ","p","a","t","t","e","r","n"," ","r","e","c","o","g","n","i","t","i","o","n">>),
    TNode(<<"r","e","i","n","f","o","r","c","e","m","e","n","t","-","l","e","a","r","n","i","n","g">>, <<"R","e","i","n","f","o","r","c","e","m","e","n","t"," ","L","e","a","r","n","i","n","g">>, 82, <<"c","o","n","c","e","p","t">>, <<"T","r","a","i","n","i","n","g"," ","a","g","e","n","t","s"," ","t","o"," ","m","a","k","e"," ","s","e","q","u","e","n","t","i","a","l"," ","d","e","c","i","s","i","o","n","s"," ","t","h","r","o","u","g","h"," ","r","e","w","a","r","d"," ","s","y","s","t","e","m","s">>),
    TNode(<<"n","l","p">>, <<"N","a","t","u","r","a","l"," ","L","a","n","g","u","a","g","e"," ","P","r","o","c","e","s","s","i","n","g">>, 78, <<"c","o","n","c","e","p","t">>, <<"T","e","c","h","n","i","q","u","e","s"," ","f","o","r"," ","m","a","c","h","i","n","e","s"," ","t","o"," ","u","n","d","e","r","s","t","a","n","d"," ","a","n","d"," ","g","e","n","e","r","a","t","e"," ","h","u","m","a","n"," ","l","a","n","g","u","a","g","e">>),
    TNode(<<"r","e","g","r","e","s","s","i","o","n">>, <<"R","e","g","r","e","s","s","i","o","n">>, 65, <<"s","k","i","l","l">>, <<"P","r","e","d","i","c","t","i","n","g"," ","c","o","n","t","i","n","u","o","u","s"," ","n","u","m","e","r","i","c","a","l"," ","v","a","l","u","e","s"," ","f","r","o","m"," ","i","n","p","u","t"," ","f","e","a","t","u","r","e","s">>),
    TNode(<<"c","l","a","s","s","i","f","i","c","a","t","i","o","n">>, <<"C","l","a","s","s","i","f","i","c","a","t","i","o","n">>, 70, <<"s","k","i","l","l">>, <<"C","a","t","e","g","o","r","i","z","i","n","g"," ","d","a","t","a"," ","i","n","t","o"," ","p","r","e","d","e","f","i","n","e","d"," ","d","i","s","c","r","e","t","e"," ","c","l","a","s","s","e","s"," ","o","r"," ","l","a","b","e","l","s">>),
    TNode(<<"d","e","c","i","s","i","o","n","-","t","r","e","e","s">>, <<"D","e","c","i","s","i","o","n"," ","T","r","e","e","s">>, 60, <<"c","o","n","c","e","p","t">>, <<"T","r","e","e","-","s","t","r","u","c","t","u","r","e","d"," ","m","o","d","e","l","s"," ","f","o","r"," ","m","a","k","i","n","g"," ","d","e","c","i","s","i","o","n","s"," ","b","a","s","e","d"," ","o","n"," ","f","e","a","t","u","r","e"," ","s","p","l","i","t","s">>),
    TNode(<<"s","v","m">>, <<"S","u","p","p","o","r","t"," ","V","e","c","t","o","r"," ","M","a","c","h","i","n","e","s">>, 62, <<"s","k","i","l","l">>, <<"F","i","n","d","i","n","g"," ","o","p","t","i","m","a","l"," ","h","y","p","e","r","p","l","a","n","e","s"," ","t","o"," ","s","e","p","a","r","a","t","e"," ","c","l","a","s","s","e","s"," ","i","n"," ","h","i","g","h"," ","d","i","m","e","n","s","i","o","n","s">>),
    TNode(<<"c","l","u","s","t","e","r","i","n","g">>, <<"C","l","u","s","t","e","r","i","n","g">>, 68, <<"s","k","i","l","l">>, <<"G","r","o","u","p","i","n","g"," ","s","i","m","i","l","a","r"," ","d","a","t","a"," ","p","o","i","n","t","s"," ","i","n","t","o"," ","c","l","u","s","t","e","r","s"," ","b","a","s","e","d"," ","o","n"," ","s","i","m","i","l","a","r","i","t","y"," ","m","e","t","r","i","c","s">>),
    TNode(<<"d","i","m","e","n","s","i","o","n","a","l","i","t","y","-","r","e","d","u","c","t","i","o","n">>, <<"D","i","m","e","n","s","i","o","n","a","l","i","t","y"," ","R","e","d","u","c","t","i","o","n">>, 64, <<"s","k","i","l","l">>, <<"R","e","d","u","c","i","n","g"," ","d","a","t","a"," ","f","e","a","t","u","r","e","s"," ","w","h","i","l","e"," ","p","r","e","s","e","r","v","i","n","g"," ","i","m","p","o","r","t","a","n","t"," ","i","n","f","o","r","m","a","t","i","o","n">>),
    TNode(<<"p","c","a">>, <<"P","r","i","n","c","i","p","a","l"," ","C","o","m","p","o","n","e","n","t"," ","A","n","a","l","y","s","i","s">>, 58, <<"c","o","n","c","e","p","t">>, <<"S","t","a","t","i","s","t","i","c","a","l"," ","t","e","c","h","n","i","q","u","e"," ","f","o","r"," ","l","i","n","e","a","r"," ","d","i","m","e","n","s","i","o","n","a","l","i","t","y"," ","r","e","d","u","c","t","i","o","n">>),
    TNode(<<"a","n","o","m","a","l","y","-","d","e","t","e","c","t","i","o","n">>, <<"A","n","o","m","a","l","y"," ","D","e","t","e","c","t","i","o","n">>, 61, <<"s","k","i","l","l">>, <<"I","d","e","n","t","i","f","y","i","n","g"," ","u","n","u","s","u","a","l"," ","p","a","t","t","e","r","n","s"," ","o","r"," ","o","u","t","l","i","e","r","s"," ","i","n"," ","d","a","t","a","s","e","t","s">>),
    TNode(<<"c","o","n","v","o","l","u","t","i","o","n","a","l","-","n","e","t","w","o","r","k","s">>, <<"C","o","n","v","o","l","u","t","i","o","n","a","l"," ","N","e","t","w","o","r","k","s">>, 75, <<"c","o","n","c","e","p","t">>, <<"N","e","u","r","a","l"," ","n","e","t","w","o","r","k","s"," ","u","s","i","n","g"," ","c","o","n","v","o","l","u","t","i","o","n","a","l"," ","l","a","y","e","r","s"," ","f","o","r"," ","i","m","a","g","e"," ","p","r","o","c","e","s","s","i","n","g">>),
    TNode(<<"r","e","c","u","r","r","e","n","t","-","n","e","t","w","o","r","k","s">>, <<"R","e","c","u","r","r","e","n","t"," ","N","e","t","w","o","r","k","s">>, 72, <<"c","o","n","c","e","p","t">>, <<"N","e","u","r","a","l"," ","n","e","t","w","o","r","k","s"," ","w","i","t","h"," ","f","e","e","d","b","a","c","k"," ","c","o","n","n","e","c","t","i","o","n","s"," ","f","o","r"," ","s","e","q","u","e","n","t","i","a","l"," ","d","a","t","a">>),
    TNode(<<"b","a","c","k","p","r","o","p","a","g","a","t","i","o","n">>, <<"B","a","c","k","p","r","o","p","a","g","a","t","i","o","n">>, 68, <<"s","k","i","l","l">>, <<"A","l","g","o","r","i","t","h","m"," ","f","o","r"," ","c","o","m","p","u","t","i","n","g"," ","g","r","a","d","i","e","n","t","s"," ","i","n"," ","n","e","u","r","a","l"," ","n","e","t","w","o","r","k"," ","t","r","a","i","n","i","n","g">>),
    TNode(<<"a","c","t","i","v","a","t","i","o","n","-","f","u","n","c","t","i","o","n","s">>, <<"A","c","t","i","v","a","t","i","o","n"," ","F","u","n","c","t","i","o","n","s">>, 55, <<"c","o","n","c","e","p","t">>, <<"N","o","n","-","l","i","n","e","a","r"," ","f","u","n","c","t","i","o","n","s"," ","i","n","t","r","o","d","u","c","i","n","g"," ","e","x","p","r","e","s","s","i","v","e","n","e","s","s"," ","t","o"," ","n","e","u","r","a","l"," ","n","e","t","w","o","r","k","s">>),
    TNode(<<"t","r","a","n","s","f","o","r","m","e","r","s">>, <<"T","r","a","n","s","f","o","r","m","e","r","s">>, 88, <<"c","o","n","c","e","p","t">>, <<"A","r","c","h","i","t","e","c","t","u","r","e"," ","u","s","i","n","g"," ","a","t","t","e","n","t","i","o","n"," ","m","e","c","h","a","n","i","s","m","s"," ","f","o","r"," ","s","e","q","u","e","n","c","e"," ","p","r","o","c","e","s","s","i","n","g">>),
    TNode(<<"a","t","t","e","n","t","i","o","n","-","m","e","c","h","a","n","i","s","m","s">>, <<"A","t","t","e","n","t","i","o","n"," ","M","e","c","h","a","n","i","s","m","s">>, 80, <<"s","k","i","l","l">>, <<"A","l","l","o","w","i","n","g"," ","m","o","d","e","l","s"," ","t","o"," ","f","o","c","u","s"," ","o","n"," ","r","e","l","e","v","a","n","t"," ","p","a","r","t","s"," ","o","f"," ","i","n","p","u","t"," ","d","a","t","a">>),
    TNode(<<"g","p","u","-","c","o","m","p","u","t","i","n","g">>, <<"G","P","U"," ","C","o","m","p","u","t","i","n","g">>, 70, <<"s","k","i","l","l">>, <<"L","e","v","e","r","a","g","i","n","g"," ","g","r","a","p","h","i","c","s"," ","p","r","o","c","e","s","s","o","r","s"," ","f","o","r"," ","a","c","c","e","l","e","r","a","t","i","n","g"," ","c","o","m","p","u","t","a","t","i","o","n","s">>),
    TNode(<<"b","a","t","c","h","-","n","o","r","m","a","l","i","z","a","t","i","o","n">>, <<"B","a","t","c","h"," ","N","o","r","m","a","l","i","z","a","t","i","o","n">>, 58, <<"c","o","n","c","e","p","t">>, <<"T","e","c","h","n","i","q","u","e"," ","s","t","a","b","i","l","i","z","i","n","g"," ","t","r","a","i","n","i","n","g"," ","a","n","d"," ","i","m","p","r","o","v","i","n","g"," ","c","o","n","v","e","r","g","e","n","c","e">>),
    TNode(<<"q","-","l","e","a","r","n","i","n","g">>, <<"Q","-","L","e","a","r","n","i","n","g">>, 68, <<"s","k","i","l","l">>, <<"M","o","d","e","l","-","f","r","e","e"," ","a","l","g","o","r","i","t","h","m"," ","f","o","r"," ","l","e","a","r","n","i","n","g"," ","o","p","t","i","m","a","l"," ","a","c","t","i","o","n"," ","v","a","l","u","e","s">>),
    TNode(<<"p","o","l","i","c","y","-","g","r","a","d","i","e","n","t">>, <<"P","o","l","i","c","y"," ","G","r","a","d","i","e","n","t">>, 65, <<"s","k","i","l","l">>, <<"M","e","t","h","o","d","s"," ","d","i","r","e","c","t","l","y"," ","o","p","t","i","m","i","z","i","n","g"," ","t","h","e"," ","p","o","l","i","c","y"," ","f","u","n","c","t","i","o","n">>),
    TNode(<<"m","a","r","k","o","v","-","d","e","c","i","s","i","o","n","s">>, <<"M","a","r","k","o","v"," ","D","e","c","i","s","i","o","n"," ","P","r","o","c","e","s","s">>, 62, <<"c","o","n","c","e","p","t">>, <<"M","a","t","h","e","m","a","t","i","c","a","l"," ","f","r","a","m","e","w","o","r","k"," ","f","o","r"," ","s","e","q","u","e","n","t","i","a","l"," ","d","e","c","i","s","i","o","n"," ","m","a","k","i","n","g">>),
    TNode(<<"w","o","r","d","-","e","m","b","e","d","d","i","n","g","s">>, <<"W","o","r","d"," ","E","m","b","e","d","d","i","n","g","s">>, 72, <<"s","k","i","l","l">>, <<"R","e","p","r","e","s","e","n","t","i","n","g"," ","w","o","r","d","s"," ","a","s"," ","d","e","n","s","e"," ","v","e","c","t","o","r","s"," ","i","n"," ","c","o","n","t","i","n","u","o","u","s"," ","s","p","a","c","e">>),
    TNode(<<"l","a","n","g","u","a","g","e","-","m","o","d","e","l","s">>, <<"L","a","n","g","u","a","g","e"," ","M","o","d","e","l","s">>, 80, <<"c","o","n","c","e","p","t">>, <<"M","o","d","e","l","s"," ","p","r","e","d","i","c","t","i","n","g"," ","p","r","o","b","a","b","i","l","i","t","y"," ","d","i","s","t","r","i","b","u","t","i","o","n","s"," ","o","v","e","r"," ","t","e","x","t"," ","s","e","q","u","e","n","c","e","s">>),
    TNode(<<"t","o","k","e","n","i","z","a","t","i","o","n">>, <<"T","o","k","e","n","i","z","a","t","i","o","n">>, 55, <<"s","k","i","l","l">>, <<"B","r","e","a","k","i","n","g"," ","t","e","x","t"," ","i","n","t","o"," ","m","e","a","n","i","n","g","f","u","l"," ","u","n","i","t","s"," ","f","o","r"," ","p","r","o","c","e","s","s","i","n","g">>),
    TNode(<<"y","a","n","n","-","l","e","c","u","n">>, <<"Y","a","n","n"," ","L","e","C","u","n">>, 75, <<"p","e","r","s","o","n">>, <<"P","i","o","n","e","e","r"," ","i","n"," ","c","o","n","v","o","l","u","t","i","o","n","a","l"," ","n","e","u","r","a","l"," ","n","e","t","w","o","r","k","s"," ","a","n","d"," ","d","e","e","p"," ","l","e","a","r","n","i","n","g">>),
    TNode(<<"y","o","s","h","u","a","-","b","e","n","g","i","o">>, <<"Y","o","s","h","u","a"," ","B","e","n","g","i","o">>, 73, <<"p","e","r","s","o","n">>, <<"L","e","a","d","i","n","g"," ","r","e","s","e","a","r","c","h","e","r"," ","i","n"," ","d","e","e","p"," ","l","e","a","r","n","i","n","g"," ","a","n","d"," ","n","e","u","r","a","l"," ","n","e","t","w","o","r","k","s">>),
    TNode(<<"g","e","o","f","f","r","e","y","-","h","i","n","t","o","n">>, <<"G","e","o","f","f","r","e","y"," ","H","i","n","t","o","n">>, 76, <<"p","e","r","s","o","n">>, <<"P","i","o","n","e","e","r","i","n","g"," ","w","o","r","k"," ","i","n"," ","b","a","c","k","p","r","o","p","a","g","a","t","i","o","n"," ","a","n","d"," ","n","e","u","r","a","l"," ","n","e","t","w","o","r","k","s">>)
  >>, <<
    TLink(<<"m","a","c","h","i","n","e","-","l","e","a","r","n","i","n","g">>, <<"s","u","p","e","r","v","i","s","e","d","-","l","e","a","r","n","i","n","g">>, 15, <<"i","n","c","l","u","d","e","s">>),
    TLink(<<"m","a","c","h","i","n","e","-","l","e","a","r","n","i","n","g">>, <<"u","n","s","u","p","e","r","v","i","s","e","d","-","l","e","a","r","n","i","n","g">>, 15, <<"i","n","c","l","u","d","e","s">>),
    TLink(<<"m","a","c","h","i","n","e","-","l","e","a","r","n","i","n","g">>, <<"n","e","u","r","a","l","-","n","e","t","w","o","r","k","s">>, 16, <<"u","s","e","s">>),
    TLink(<<"m","a","c","h","i","n","e","-","l","e","a","r","n","i","n","g">>, <<"d","e","e","p","-","l","e","a","r","n","i","n","g">>, 14, <<"a","d","v","a","n","c","e","s">>),
    TLink(<<"m","a","c","h","i","n","e","-","l","e","a","r","n","i","n","g">>, <<"r","e","i","n","f","o","r","c","e","m","e","n","t","-","l","e","a","r","n","i","n","g">>, 12, <<"i","n","c","l","u","d","e","s">>),
    TLink(<<"m","a","c","h","i","n","e","-","l","e","a","r","n","i","n","g">>, <<"n","l","p">>, 13, <<"a","p","p","l","i","e","s","-","t","o">>),
    TLink(<<"s","u","p","e","r","v","i","s","e","d","-","l","e","a","r","n","i","n","g">>, <<"r","e","g","r","e","s","s","i","o","n">>, 12, <<"t","e","c","h","n","i","q","u","e">>),
    TLink(<<"s","u","p","e","r","v","i","s","e","d","-","l","e","a","r","n","i","n","g">>, <<"c","l","a","s","s","i","f","i","c","a","t","i","o","n">>, 13, <<"t","e","c","h","n","i","q","u","e">>),
    TLink(<<"s","u","p","e","r","v","i","s","e","d","-","l","e","a","r","n","i","n","g">>, <<"d","e","c","i","s","i","o","n","-","t","r","e","e","s">>, 10, <<"a","l","g","o","r","i","t","h","m">>),
    TLink(<<"s","u","p","e","r","v","i","s","e","d","-","l","e","a","r","n","i","n","g">>, <<"s","v","m">>, 11, <<"a","l","g","o","r","i","t","h","m">>),
    TLink(<<"u","n","s","u","p","e","r","v","i","s","e","d","-","l","e","a","r","n","i","n","g">>, <<"c","l","u","s","t","e","r","i","n","g">>, 12, <<"t","e","c","h","n","i","q","u","e">>),
    TLink(<<"u","n","s","u","p","e","r","v","i","s","e","d","-","l","e","a","r","n","i","n","g">>, <<"d","i","m","e","n","s","i","o","n","a","l","i","t","y","-","r","e","d","u","c","t","i","o","n">>, 11, <<"t","e","c","h","n","i","q","u","e">>),
    TLink(<<"u","n","s","u","p","e","r","v","i","s","e","d","-","l","e","a","r","n","i","n","g">>, <<"p","c","a">>, 9, <<"a","l","g","o","r","i","t","h","m">>),
    TLink(<<"u","n","s","u","p","e","r","v","i","s","e","d","-","l","e","a","r","n","i","n","g">>, <<"a","n","o","m","a","l","y","-","d","e","t","e","c","t","i","o","n">>, 10, <<"t","e","c","h","n","i","q","u","e">>),
    TLink(<<"n","e","u","r","a","l","-","n","e","t","w","o","r","k","s">>, <<"c","o","n","v","o","l","u","t","i","o","n","a","l","-","n","e","t","w","o","r","k","s">>, 13, <<"a","r","c","h","i","t","e","c","t","u","r","e">>),
    TLink(<<"n","e","u","r","a","l","-","n","e","t","w","o","r","k","s">>, <<"r","e","c","u","r","r","e","n","t","-","n","e","t","w","o","r","k","s">>, 13, <<"a","r","c","h","i","t","e","c","t","u","r","e">>),
    TLink(<<"n","e","u","r","a","l","-","n","e","t","w","o","r","k","s">>, <<"b","a","c","k","p","r","o","p","a","g","a","t","i","o","n">>, 14, <<"t","r","a","i","n","i","n","g","-","m","e","t","h","o","d">>),
    TLink(<<"n","e","u","r","a","l","-","n","e","t","w","o","r","k","s">>, <<"a","c","t","i","v","a","t","i","o","n","-","f","u","n","c","t","i","o","n","s">>, 11, <<"c","o","m","p","o","n","e","n","t">>),
    TLink(<<"d","e","e","p","-","l","e","a","r","n","i","n","g">>, <<"t","r","a","n","s","f","o","r","m","e","r","s">>, 14, <<"m","o","d","e","r","n","-","a","r","c","h","i","t","e","c","t","u","r","e">>),
    TLink(<<"d","e","e","p","-","l","e","a","r","n","i","n","g">>, <<"a","t","t","e","n","t","i","o","n","-","m","e","c","h","a","n","i","s","m","s">>, 13, <<"t","e","c","h","n","i","q","u","e">>),
    TLink(<<"d","e","e","p","-","l","e","a","r","n","i","n","g">>, <<"g","p","u","-","c","o","m","p","u","t","i","n","g">>, 12, <<"r","e","q","u","i","r","e","s">>),
    TLink(<<"d","e","e","p","-","l","e","a","r","n","i","n","g">>, <<"b","a","t","c","h","-","n","o","r","m","a","l","i","z","a","t","i","o","n">>, 10, <<"t","e","c","h","n","i","q","u","e">>),
    TLink(<<"r","e","i","n","f","o","r","c","e","m","e","n","t","-","l","e","a","r","n","i","n","g">>, <<"q","-","l","e","a","r","n","i","n","g">>, 12, <<"a","l","g","o","r","i","t","h","m">>),
    TLink(<<"r","e","i","n","f","o","r","c","e","m","e","n","t","-","l","e","a","r","n","i","n","g">>, <<"p","o","l","i","c","y","-","g","r","a","d","i","e","n","t">>, 11, <<"m","e","t","h","o","d">>),
    TLink(<<"r","e","i","n","f","o","r","c","e","m","e","n","t","-","l","e","a","r","n","i","n","g">>, <<"m","a","r","k","o","v","-","d","e","c","i","s","i","o","n","s">>, 12, <<"f","o","u","n","d","a","t","i","o","n">>),
    TLink(<<"n","l","p">>, <<"w","o","r","d","-","e","m","b","e","d","d","i","n","g","s">>, 12, <<"t","e","c","h","n","i","q","u","e">>),
    TLink(<<"n","l","p">>, <<"l","a","n","g","u","a","g","e","-","m","o","d","e","l","s">>, 14, <<"p","r","i","m","a","r","y","-","a","p","p","r","o","a","c","h">>),
    TLink(<<"n","l","p">>, <<"t","o","k","e","n","i","z","a","t","i","o","n">>, 10, <<"p","r","e","p","r","o","c","e","s","s","i","n","g">>),
    TLink(<<"n","e","u","r","a","l","-","n","e","t","w","o","r","k","s">>, <<"d","e","e","p","-","l","e","a","r","n","i","n","g">>, 15, <<"f","o","u","n","d","a","t","i","o","n">>),
    TLink(<<"c","o","n","v","o","l","u","t","i","o","n","a","l","-","n","e","t","w","o","r","k","s">>, <<"d","e","e","p","-","l","e","a","r","n","i","n","g">>, 12, <<"b","r","e","a","k","t","h","r","o","u","g","h">>),
    TLink(<<"t","r","a","n","s","f","o","r","m","e","r","s">>, <<"a","t","t","e","n","t","i","o","n","-","m","e","c","h","a","n","i","s","m","s">>, 14, <<"u","s","e","s">>),
    TLink(<<"t","r","a","n","s","f","o","r","m","e","r","s">>, <<"n","l","p">>, 13, <<"p","o","w","e","r","s">>),
    TLink(<<"l","a","n","g","u","a","g","e","-","m","o","d","e","l","s">>, <<"t","r","a","n","s","f","o","r","m","e","r","s">>, 12, <<"a","r","c","h","i","t","e","c","t","u","r","e">>),
    TLink(<<"b","a","c","k","p","r","o","p","a","g","a","t","i","o","n">>, <<"g","r","a","d","i","e","n","t","-","d","e","s","c","e","n","t">>, 11, <<"e","n","a","b","l","e","s">>),
    TLink(<<"c","l","a","s","s","i","f","i","c","a","t","i","o","n">>, <<"c","o","n","v","o","l","u","t","i","o","n","a","l","-","n","e","t","w","o","r","k","s">>, 10, <<"t","a","s","k">>),
    TLink(<<"y","a","n","n","-","l","e","c","u","n">>, <<"c","o","n","v","o","l","u","t","i","o","n","a","l","-","n","e","t","w","o","r","k","s">>, 14, <<"p","i","o","n","e","e","r","e","d">>),
    TLink(<<"y","a","n","n","-","l","e","c","u","n">>, <<"d","e","e","p","-","l","e","a","r","n","i","n","g">>, 12, <<"c","o","n","t","r","i","b","u","t","e","d","-","t","o">>),
    TLink(<<"y","o","s","h","u","a","-","b","e","n","g","i","o">>, <<"d","e","e","p","-","l","e","a","r","n","i","n","g">>, 13, <<"a","d","v","a","n","c","e","d">>),
    TLink(<<"y","o","s","h","u","a","-","b","e","n","g","i","o">>, <<"b","a","c","k","p","r","o","p","a","g","a","t","i","o","n">>, 11, <<"d","e","v","e","l","o","p","e","d">>),
    TLink(<<"g","e","o","f","f","r","e","y","-","h","i","n","t","o","n">>, <<"b","a","c","k","p","r","o","p","a","g","a","t","i","o","n">>, 13, <<"p","i","o","n","e","e","r","e","d">>),
    TLink(<<"g","e","o","f","f","r","e","y","-","h","i","n","t","o","n">>, <<"n","e","u","r","a","l","-","n","e","t","w","o","r","k","s">>, 12, <<"f","o","u","n","d","e","d">>)
  >>)

(* DUMMY_DATA_TEMPLATES['web-development'] (ai.ts 371-640): the object literal the arrow
   function builds, nodes and links in source order. *)
TemplateWebDevelopment ==
  GraphObj(<<
    TNode(<<"w","e","b","-","d","e","v","e","l","o","p","m","e","n","t">>, <<"W","e","b"," ","D","e","v","e","l","o","p","m","e","n","t">>, 100, <<"t","o","p","i","c">>, <<"C","r","e","a","t","i","n","g"," ","i","n","t","e","r","a","c","t","i","v","e"," ","a","p","p","l","i","c","a","t","i","o","n","s"," ","a","n","d"," ","w","e","b","s","i","t","e","s"," ","f","o","r"," ","t","h","e"," ","i","n","t","e","r","n","e","t">>),
    TNode(<<"f","r","o","n","t","e","n","d">>, <<"F","r","o","n","t","e","n","d"," ","D","e","v","e","l","o","p","m","e","n","t">>, 85, <<"c","o","n","c","e","p","t">>, <<"B","u","i","l","d","i","n","g"," ","u","s","e","r"," ","i","n","t","e","r","f","a","c","e","s"," ","a","n","d"," ","c","l","i","e","n","t","-","s","i","d","e"," ","a","p","p","l","i","c","a","t","i","o","n","s">>),
    TNode(<<"b","a","c","k","e","n","d">>, <<"B","a","c","k","e","n","d"," ","D","e","v","e","l","o","p","m","e","n","t">>, 83, <<"c","o","n","c","e","p","t">>, <<"S","e","r","v","e","r","-","s","i","d","e"," ","l","o","g","i","c",","," ","d","a","t","a","b","a","s","e","s",","," ","a","n","d"," ","b","u","s","i","n","e","s","s"," ","l","o","g","i","c"," ","i","m","p","l","e","m","e","n","t","a","t","i","o","n">>),
    TNode(<<"d","e","v","o","p","s">>, <<"D","e","v","O","p","s">>, 75, <<"c","o","n","c","e","p","t">>, <<"I","n","f","r","a","s","t","r","u","c","t","u","r","e",","," ","d","e","p","l","o","y","m","e","n","t",","," ","a","n","d"," ","o","p","e","r","a","t","i","o","n","s"," ","a","u","t","o","m","a","t","i","o","n">>),
    TNode(<<"m","o","b","i","l","e","-","w","e","b">>, <<"M","o","b","i","l","e"," ","W","e","b"," ","D","e","v","e","l","o","p","m","e","n","t">>, 72, <<"c","o","n","c","e","p","t">>, <<"B","u","i","l","d","i","n","g"," ","r","e","s","p","o","n","s","i","v","e"," ","a","n","d"," ","m","o","b","i","l","e","-","o","p","t","i","m","i","z","e","d"," ","w","e","b"," ","a","p","p","l","i","c","a","t","i","o","n","s">>),
    TNode(<<"w","e","b","-","p","e","r","f","o","r","m","a","n","c","e">>, <<"W","e","b"," ","P","e","r","f","o","r","m","a","n","c","e">>, 70, <<"c","o","n","c","e","p","t">>, <<"O","p","t","i","m","i","z","i","n","g"," ","s","p","e","e","d",","," ","e","f","f","i","c","i","e","n","c","y",","," ","a","n","d"," ","u","s","e","r"," ","e","x","p","e","r","i","e","n","c","e"," ","m","e","t","r","i","c","s">>),
    TNode(<<"s","e","c","u","r","i","t","y">>, <<"W","e","b"," ","S","e","c","u","r","i","t","y">>, 76, <<"c","o","n","c","e","p","t">>, <<"P","r","o","t","e","c","t","i","n","g"," ","a","p","p","l","i","c","a","t","i","o","n","s"," ","a","n","d"," ","u","s","e","r","s"," ","f","r","o","m"," ","v","u","l","n","e","r","a","b","i","l","i","t","i","e","s">>),
    TNode(<<"h","t","m","l","-","c","s","s">>, <<"H","T","M","L"," ","&"," ","C","S","S">>, 78, <<"s","k","i","l","l">>, <<"M","a","r","k","u","p"," ","a","n","d"," ","s","t","y","l","i","n","g"," ","l","a","n","g","u","a","g","e","s"," ","f","o","r"," ","w","e","b"," ","p","a","g","e","s">>),
    TNode(<<"j","a","v","a","s","c","r","i","p","t">>, <<"J","a","v","a","S","c","r","i","p","t">>, 82, <<"s","k","i","l","l">>, <<"P","r","i","m","a","r","y"," ","p","r","o","g","r","a","m","m","i","n","g"," ","l","a","n","g","u","a","g","e"," ","f","o","r"," ","c","l","i","e","n","t","-","s","i","d","e"," ","i","n","t","e","r","a","c","t","i","v","i","t","y">>),
    TNode(<<"r","e","a","c","t">>, <<"R","e","a","c","t">>, 75, <<"c","o","n","c","e","p","t">>, <<"L","i","b","r","a","r","y"," ","f","o","r"," ","b","u","i","l","d","i","n","g"," ","d","y","n","a","m","i","c"," ","u","s","e","r"," ","i","n","t","e","r","f","a","c","e","s"," ","w","i","t","h"," ","c","o","m","p","o","n","e","n","t","s">>),
    TNode(<<"v","u","e">>, <<"V","u","e",".","j","s">>, 68, <<"c","o","n","c","e","p","t">>, <<"P","r","o","g","r","e","s","s","i","v","e"," ","f","r","a","m","e","w","o","r","k"," ","f","o","r"," ","b","u","i","l","d","i","n","g"," ","u","s","e","r"," ","i","n","t","e","r","f","a","c","e","s">>),
    TNode(<<"t","y","p","e","s","c","r","i","p","t">>, <<"T","y","p","e","S","c","r","i","p","t">>, 72, <<"s","k","i","l","l">>, <<"T","y","p","e","-","s","a","f","e"," ","s","u","p","e","r","s","e","t"," ","o","f"," ","J","a","v","a","S","c","r","i","p","t"," ","f","o","r"," ","l","a","r","g","e","-","s","c","a","l","e"," ","p","r","o","j","e","c","t","s">>),
    TNode(<<"n","o","d","e","j","s">>, <<"N","o","d","e",".","j","s">>, 80, <<"c","o","n","c","e","p","t">>, <<"J","a","v","a","S","c","r","i","p","t"," ","r","u","n","t","i","m","e"," ","f","o","r"," ","s","e","r","v","e","r","-","s","i","d","e"," ","d","e","v","e","l","o","p","m","e","n","t">>),
    TNode(<<"d","a","t","a","b","a","s","e","s">>, <<"D","a","t","a","b","a","s","e","s">>, 77, <<"c","o","n","c","e","p","t">>, <<"S","y","s","t","e","m","s"," ","f","o","r"," ","s","t","o","r","i","n","g"," ","a","n","d"," ","r","e","t","r","i","e","v","i","n","g"," ","s","t","r","u","c","t","u","r","e","d"," ","d","a","t","a">>),
    TNode(<<"r","e","s","t","-","a","p","i">>, <<"R","E","S","T"," ","A","P","I","s">>, 76, <<"s","k","i","l","l">>, <<"S","t","a","n","d","a","r","d"," ","a","r","c","h","i","t","e","c","t","u","r","e"," ","f","o","r"," ","b","u","i","l","d","i","n","g"," ","w","e","b"," ","s","e","r","v","i","c","e"," ","e","n","d","p","o","i","n","t","s">>),
    TNode(<<"g","r","a","p","h","q","l">>, <<"G","r","a","p","h","Q","L">>, 68, <<"c","o","n","c","e","p","t">>, <<"Q","u","e","r","y"," ","l","a","n","g","u","a","g","e"," ","f","o","r"," ","f","l","e","x","i","b","l","e"," ","A","P","I"," ","d","a","t","a"," ","f","e","t","c","h","i","n","g">>),
    TNode(<<"s","q","l">>, <<"S","Q","L">>, 74, <<"s","k","i","l","l">>, <<"L","a","n","g","u","a","g","e"," ","f","o","r"," ","q","u","e","r","y","i","n","g"," ","a","n","d"," ","m","a","n","a","g","i","n","g"," ","r","e","l","a","t","i","o","n","a","l"," ","d","a","t","a","b","a","s","e","s">>),
    TNode(<<"d","o","c","k","e","r">>, <<"D","o","c","k","e","r">>, 72, <<"c","o","n","c","e","p","t">>, <<"C","o","n","t","a","i","n","e","r","i","z","a","t","i","o","n"," ","p","l","a","t","f","o","r","m"," ","f","o","r"," ","a","p","p","l","i","c","a","t","i","o","n"," ","d","e","p","l","o","y","m","e","n","t">>),
    TNode(<<"k","u","b","e","r","n","e","t","e","s">>, <<"K","u","b","e","r","n","e","t","e","s">>, 68, <<"c","o","n","c","e","p","t">>, <<"O","r","c","h","e","s","t","r","a","t","i","o","n"," ","s","y","s","t","e","m"," ","f","o","r"," ","m","a","n","a","g","i","n","g"," ","c","o","n","t","a","i","n","e","r","i","z","e","d"," ","a","p","p","l","i","c","a","t","i","o","n","s">>),
    TNode(<<"c","i","-","c","d">>, <<"C","I","/","C","D"," ","P","i","p","e","l","i","n","e","s">>, 70, <<"s","k","i","l","l">>, <<"A","u","t","o","m","a","t","e","d"," ","t","e","s","t","i","n","g"," ","a","n","d"," ","d","e","p","l","o","y","m","e","n","t"," ","w","o","r","k","f","l","o","w","s">>),
    TNode(<<"r","e","s","p","o","n","s","i","v","e","-","d","e","s","i","g","n">>, <<"R","e","s","p","o","n","s","i","v","e"," ","D","e","s","i","g","n">>, 66, <<"s","k","i","l","l">>, <<"A","d","a","p","t","i","n","g"," ","l","a","y","o","u","t","s"," ","t","o"," ","d","i","f","f","e","r","e","n","t"," ","s","c","r","e","e","n"," ","s","i","z","e","s">>),
    TNode(<<"p","w","a">>, <<"P","r","o","g","r","e","s","s","i","v","e"," ","W","e","b"," ","A","p","p","s">>, 65, <<"c","o","n","c","e","p","t">>, <<"W","e","b"," ","a","p","p","s"," ","w","i","t","h"," ","a","p","p","-","l","i","k","e"," ","c","a","p","a","b","i","l","i","t","i","e","s"," ","o","f","f","l","i","n","e"," ","s","u","p","p","o","r","t">>),
    TNode(<<"o","p","t","i","m","i","z","a","t","i","o","n">>, <<"P","e","r","f","o","r","m","a","n","c","e"," ","O","p","t","i","m","i","z","a","t","i","o","n">>, 68, <<"s","k","i","l","l">>, <<"T","e","c","h","n","i","q","u","e","s"," ","f","o","r"," ","i","m","p","r","o","v","i","n","g"," ","a","p","p","l","i","c","a","t","i","o","n"," ","s","p","e","e","d"," ","a","n","d"," ","e","f","f","i","c","i","e","n","c","y">>),
    TNode(<<"c","a","c","h","i","n","g">>, <<"C","a","c","h","i","n","g"," ","S","t","r","a","t","e","g","i","e","s">>, 62, <<"s","k","i","l","l">>, <<"S","t","o","r","i","n","g"," ","f","r","e","q","u","e","n","t","l","y"," ","a","c","c","e","s","s","e","d"," ","d","a","t","a"," ","f","o","r"," ","f","a","s","t","e","r"," ","r","e","t","r","i","e","v","a","l">>),
    TNode(<<"a","u","t","h","e","n","t","i","c","a","t","i","o","n">>, <<"A","u","t","h","e","n","t","i","c","a","t","i","o","n">>, 70, <<"s","k","i","l","l">>, <<"V","e","r","i","f","y","i","n","g"," ","u","s","e","r"," ","i","d","e","n","t","i","t","y"," ","t","h","r","o","u","g","h"," ","s","e","c","u","r","e"," ","m","e","c","h","a","n","i","s","m","s">>),
    TNode(<<"e","n","c","r","y","p","t","i","o","n">>, <<"E","n","c","r","y","p","t","i","o","n">>, 68, <<"s","k","i","l","l">>, <<"P","r","o","t","e","c","t","i","n","g"," ","s","e","n","s","i","t","i","v","e"," ","d","a","t","a"," ","t","h","r","o","u","g","h"," ","c","r","y","p","t","o","g","r","a","p","h","i","c"," ","t","e","c","h","n","i","q","u","e","s">>),
    TNode(<<"v","i","t","e">>, <<"V","i","t","e">>, 60, <<"c","o","n","c","e","p","t">>, <<"N","e","x","t","-","g","e","n","e","r","a","t","i","o","n"," ","b","u","i","l","d"," ","t","o","o","l"," ","f","o","r"," ","f","a","s","t"," ","d","e","v","e","l","o","p","m","e","n","t">>),
    TNode(<<"w","e","b","p","a","c","k">>, <<"W","e","b","p","a","c","k">>, 58, <<"c","o","n","c","e","p","t">>, <<"M","o","d","u","l","e"," ","b","u","n","d","l","e","r"," ","f","o","r"," ","J","a","v","a","S","c","r","i","p","t"," ","a","p","p","l","i","c","a","t","i","o","n","s">>),
    TNode(<<"g","i","t">>, <<"G","i","t">>, 72, <<"s","k","i","l","l">>, <<"V","e","r","s","i","o","n"," ","c","o","n","t","r","o","l"," ","s","y","s","t","e","m"," ","f","o","r"," ","c","o","d","e"," ","c","o","l","l","a","b","o","r","a","t","i","o","n">>)
  >>, <<
    TLink(<<"w","e","b","-","d","e","v","e","l","o","p","m","e","n","t">>, <<"f","r","o","n","t","e","n","d">>, 15, <<"i","n","c","l","u","d","e","s">>),
    TLink(<<"w","e","b","-","d","e","v","e","l","o","p","m","e","n","t">>, <<"b","a","c","k","e","n","d">>, 15, <<"i","n","c","l","u","d","e","s">>),
    TLink(<<"w","e","b","-","d","e","v","e","l","o","p","m","e","n","t">>, <<"d","e","v","o","p","s">>, 12, <<"r","e","q","u","i","r","e","s">>),
    TLink(<<"w","e","b","-","d","e","v","e","l","o","p","m","e","n","t">>, <<"m","o","b","i","l","e","-","w","e","b">>, 11, <<"i","n","c","l","u","d","e","s">>),
    TLink(<<"w","e","b","-","d","e","v","e","l","o","p","m","e","n","t">>, <<"w","e","b","-","p","e","r","f","o","r","m","a","n","c","e">>, 12, <<"p","r","i","o","r","i","t","i","z","e","s">>),
    TLink(<<"w","e","b","-","d","e","v","e","l","o","p","m","e","n","t">>, <<"s","e","c","u","r","i","t","y">>, 13, <<"r","e","q","u","i","r","e","s">>),
    TLink(<<"f","r","o","n","t","e","n","d">>, <<"h","t","m","l","-","c","s","s">>, 13, <<"f","o","u","n","d","a","t","i","o","n">>),
    TLink(<<"f","r","o","n","t","e","n","d">>, <<"j","a","v","a","s","c","r","i","p","t">>, 14, <<"c","o","r","e","-","l","a","n","g","u","a","g","e">>),
    TLink(<<"f","r","o","n","t","e","n","d">>, <<"r","e","a","c","t">>, 12, <<"p","o","p","u","l","a","r","-","f","r","a","m","e","w","o","r","k">>),
    TLink(<<"f","r","o","n","t","e","n","d">>, <<"v","u","e">>, 10, <<"a","l","t","e","r","n","a","t","i","v","e","-","f","r","a","m","e","w","o","r","k">>),
    TLink(<<"f","r","o","n","t","e","n","d">>, <<"t","y","p","e","s","c","r","i","p","t">>, 11, <<"e","n","h","a","n","c","e","s">>),
    TLink(<<"j","a","v","a","s","c","r","i","p","t">>, <<"t","y","p","e","s","c","r","i","p","t">>, 12, <<"e","x","t","e","n","d","s">>),
    TLink(<<"r","e","a","c","t">>, <<"v","i","t","e">>, 10, <<"u","s","e","s">>),
    TLink(<<"v","u","e">>, <<"v","i","t","e">>, 9, <<"i","n","t","e","g","r","a","t","e","s","-","w","i","t","h">>),
    TLink(<<"b","a","c","k","e","n","d">>, <<"n","o","d","e","j","s">>, 13, <<"p","o","p","u","l","a","r","-","r","u","n","t","i","m","e">>),
    TLink(<<"b","a","c","k","e","n","d">>, <<"d","a","t","a","b","a","s","e","s">>, 13, <<"u","s","e","s">>),
    TLink(<<"b","a","c","k","e","n","d">>, <<"r","e","s","t","-","a","p","i">>, 12, <<"b","u","i","l","d","s">>),
    TLink(<<"b","a","c","k","e","n","d">>, <<"g","r","a","p","h","q","l">>, 10, <<"a","l","t","e","r","n","a","t","i","v","e","-","t","o">>),
    TLink(<<"r","e","s","t","-","a","p","i">>, <<"g","r","a","p","h","q","l">>, 9, <<"c","o","m","p","a","r","e","d","-","t","o">>),
    TLink(<<"d","a","t","a","b","a","s","e","s">>, <<"s","q","l">>, 12, <<"u","s","e","s">>),
    TLink(<<"d","e","v","o","p","s">>, <<"d","o","c","k","e","r">>, 12, <<"u","s","e","s">>),
    TLink(<<"d","e","v","o","p","s">>, <<"k","u","b","e","r","n","e","t","e","s">>, 11, <<"o","r","c","h","e","s","t","r","a","t","e","s","-","w","i","t","h">>),
    TLink(<<"d","e","v","o","p","s">>, <<"c","i","-","c","d">>, 13, <<"a","u","t","o","m","a","t","e","s">>),
    TLink(<<"d","o","c","k","e","r">>, <<"k","u","b","e","r","n","e","t","e","s">>, 11, <<"w","o","r","k","s","-","w","i","t","h">>),
    TLink(<<"m","o","b","i","l","e","-","w","e","b">>, <<"r","e","s","p","o","n","s","i","v","e","-","d","e","s","i","g","n">>, 12, <<"r","e","q","u","i","r","e","s">>),
    TLink(<<"m","o","b","i","l","e","-","w","e","b">>, <<"p","w","a">>, 11, <<"e","m","e","r","g","i","n","g","-","p","a","t","t","e","r","n">>),
    TLink(<<"w","e","b","-","p","e","r","f","o","r","m","a","n","c","e">>, <<"o","p","t","i","m","i","z","a","t","i","o","n">>, 12, <<"t","e","c","h","n","i","q","u","e">>),
    TLink(<<"w","e","b","-","p","e","r","f","o","r","m","a","n","c","e">>, <<"c","a","c","h","i","n","g">>, 11, <<"s","t","r","a","t","e","g","y">>),
    TLink(<<"s","e","c","u","r","i","t","y">>, <<"a","u","t","h","e","n","t","i","c","a","t","i","o","n">>, 12, <<"m","e","t","h","o","d">>),
    TLink(<<"s","e","c","u","r","i","t","y">>, <<"e","n","c","r","y","p","t","i","o","n">>, 11, <<"t","e","c","h","n","i","q","u","e">>),
    TLink(<<"f","r","o","n","t","e","n","d">>, <<"w","e","b","p","a","c","k">>, 10, <<"u","s","e","s">>),
    TLink(<<"n","o","d","e","j","s">>, <<"g","i","t">>, 10, <<"v","e","r","s","i","o","n","-","c","o","n","t","r","o","l">>),
    TLink(<<"n","o","d","e","j","s">>, <<"d","e","v","o","p","s">>, 11, <<"d","e","p","l","o","y","e","d","-","v","i","a">>),
    TLink(<<"j","a","v","a","s","c","r","i","p","t">>, <<"n","o","d","e","j","s">>, 13, <<"r","u","n","t","i","m","e">>),
    TLink(<<"b","a","c","k","e","n","d">>, <<"c","i","-","c","d">>, 10, <<"a","u","t","o","m","a","t","e","d","-","b","y">>)
  >>)

(* DUMMY_DATA_TEMPLATES['quantum-computing'] (ai.ts 642-814): the object literal the arrow
   function builds, nodes and links in source order. *)
TemplateQuantumComputing ==
  GraphObj(<<
    TNode(<<"q","u","a","n","t","u","m","-","c","o","m","p","u","t","i","n","g">>, <<"Q","u","a","n","t","u","m"," ","C","o","m","p","u","t","i","n","g">>, 100, <<"t","o","p","i","c">>, <<"C","o","m","p","u","t","a","t","i","o","n","a","l"," ","s","y","s","t","e","m","s"," ","l","e","v","e","r","a","g","i","n","g"," ","q","u","a","n","t","u","m"," ","m","e","c","h","a","n","i","c","a","l"," ","p","h","e","n","o","m","e","n","a">>),
    TNode(<<"q","u","a","n","t","u","m","-","m","e","c","h","a","n","i","c","s">>, <<"Q","u","a","n","t","u","m"," ","M","e","c","h","a","n","i","c","s">>, 88, <<"c","o","n","c","e","p","t">>, <<"P","h","y","s","i","c","s"," ","o","f"," ","m","a","t","t","e","r"," ","a","n","d"," ","e","n","e","r","g","y"," ","a","t"," ","a","t","o","m","i","c"," ","a","n","d"," ","s","u","b","a","t","o","m","i","c"," ","s","c","a","l","e","s">>),
    TNode(<<"q","u","b","i","t","s">>, <<"Q","u","b","i","t","s">>, 85, <<"c","o","n","c","e","p","t">>, <<"Q","u","a","n","t","u","m"," ","b","i","t","s"," ","t","h","a","t"," ","e","x","i","s","t"," ","i","n"," ","s","u","p","e","r","p","o","s","i","t","i","o","n"," ","o","f"," ","0"," ","a","n","d"," ","1">>),
    TNode(<<"q","u","a","n","t","u","m","-","g","a","t","e","s">>, <<"Q","u","a","n","t","u","m"," ","G","a","t","e","s">>, 80, <<"s","k","i","l","l">>, <<"O","p","e","r","a","t","i","o","n","s"," ","m","a","n","i","p","u","l","a","t","i","n","g"," ","q","u","b","i","t"," ","s","t","a","t","e","s"," ","i","n"," ","q","u","a","n","t","u","m"," ","c","i","r","c","u","i","t","s">>),
    TNode(<<"q","u","a","n","t","u","m","-","a","l","g","o","r","i","t","h","m","s">>, <<"Q","u","a","n","t","u","m"," ","A","l","g","o","r","i","t","h","m","s">>, 82, <<"c","o","n","c","e","p","t">>, <<"C","o","m","p","u","t","a","t","i","o","n","a","l"," ","p","r","o","c","e","d","u","r","e","s"," ","d","e","s","i","g","n","e","d"," ","f","o","r"," ","q","u","a","n","t","u","m"," ","c","o","m","p","u","t","e","r","s">>),
    TNode(<<"e","r","r","o","r","-","c","o","r","r","e","c","t","i","o","n">>, <<"Q","u","a","n","t","u","m"," ","E","r","r","o","r"," ","C","o","r","r","e","c","t","i","o","n">>, 75, <<"c","o","n","c","e","p","t">>, <<"P","r","o","t","e","c","t","i","n","g"," ","q","u","a","n","t","u","m"," ","i","n","f","o","r","m","a","t","i","o","n"," ","f","r","o","m"," ","d","e","c","o","h","e","r","e","n","c","e"," ","e","r","r","o","r","s">>),
    TNode(<<"q","u","a","n","t","u","m","-","a","p","p","l","i","c","a","t","i","o","n","s">>, <<"Q","u","a","n","t","u","m"," ","A","p","p","l","i","c","a","t","i","o","n","s">>, 70, <<"p","r","o","j","e","c","t">>, <<"R","e","a","l","-","w","o","r","l","d"," ","p","r","o","b","l","e","m","s"," ","s","o","l","v","e","d"," ","u","s","i","n","g"," ","q","u","a","n","t","u","m"," ","c","o","m","p","u","t","i","n","g">>),
    TNode(<<"s","u","p","e","r","p","o","s","i","t","i","o","n">>, <<"S","u","p","e","r","p","o","s","i","t","i","o","n">>, 78, <<"c","o","n","c","e","p","t">>, <<"P","r","o","p","e","r","t","y"," ","o","f"," ","q","u","b","i","t","s"," ","e","x","i","s","t","i","n","g"," ","i","n"," ","m","u","l","t","i","p","l","e"," ","s","t","a","t","e","s"," ","s","i","m","u","l","t","a","n","e","o","u","s","l","y">>),
    TNode(<<"e","n","t","a","n","g","l","e","m","e","n","t">>, <<"E","n","t","a","n","g","l","e","m","e","n","t">>, 76, <<"c","o","n","c","e","p","t">>, <<"C","o","r","r","e","l","a","t","i","o","n"," ","b","e","t","w","e","e","n"," ","q","u","b","i","t","s"," ","i","n","d","e","p","e","n","d","e","n","t"," ","o","f"," ","d","i","s","t","a","n","c","e">>),
    TNode(<<"s","h","o","r","s","-","a","l","g","o","r","i","t","h","m">>, <<"S","h","o","r"," ","A","l","g","o","r","i","t","h","m">>, 72, <<"s","k","i","l","l">>, <<"Q","u","a","n","t","u","m"," ","a","l","g","o","r","i","t","h","m"," ","f","o","r"," ","i","n","t","e","g","e","r"," ","f","a","c","t","o","r","i","z","a","t","i","o","n"," ","e","f","f","i","c","i","e","n","t","l","y">>),
    TNode(<<"g","r","o","v","e","r","s","-","a","l","g","o","r","i","t","h","m">>, <<"G","r","o","v","e","r"," ","A","l","g","o","r","i","t","h","m">>, 68, <<"s","k","i","l","l">>, <<"Q","u","a","n","t","u","m"," ","s","e","a","r","c","h"," ","a","l","g","o","r","i","t","h","m"," ","p","r","o","v","i","d","i","n","g"," ","q","u","a","d","r","a","t","i","c"," ","s","p","e","e","d","u","p">>),
    TNode(<<"q","u","a","n","t","u","m","-","s","i","m","u","l","a","t","i","o","n">>, <<"Q","u","a","n","t","u","m"," ","S","i","m","u","l","a","t","i","o","n">>, 65, <<"s","k","i","l","l">>, <<"S","i","m","u","l","a","t","i","n","g"," ","q","u","a","n","t","u","m"," ","s","y","s","t","e","m","s"," ","o","n"," ","q","u","a","n","t","u","m"," ","c","o","m","p","u","t","e","r","s">>),
    TNode(<<"i","b","m","-","q","u","a","n","t","u","m">>, <<"I","B","M"," ","Q","u","a","n","t","u","m">>, 60, <<"r","e","s","o","u","r","c","e">>, <<"C","l","o","u","d","-","b","a","s","e","d"," ","q","u","a","n","t","u","m"," ","c","o","m","p","u","t","i","n","g"," ","p","l","a","t","f","o","r","m"," ","a","n","d"," ","s","e","r","v","i","c","e","s">>),
    TNode(<<"g","o","o","g","l","e","-","s","y","c","a","m","o","r","e">>, <<"G","o","o","g","l","e"," ","S","y","c","a","m","o","r","e">>, 62, <<"r","e","s","o","u","r","c","e">>, <<"G","o","o","g","l","e"," ","q","u","a","n","t","u","m"," ","p","r","o","c","e","s","s","o","r"," ","d","e","m","o","n","s","t","r","a","t","i","n","g"," ","q","u","a","n","t","u","m"," ","s","u","p","r","e","m","a","c","y">>),
    TNode(<<"c","r","y","p","t","o","g","r","a","p","h","y">>, <<"P","o","s","t","-","Q","u","a","n","t","u","m"," ","C","r","y","p","t","o","g","r","a","p","h","y">>, 70, <<"s","k","i","l","l">>, <<"E","n","c","r","y","p","t","i","o","n"," ","r","e","s","i","s","t","a","n","t"," ","t","o"," ","q","u","a","n","t","u","m"," ","c","o","m","p","u","t","i","n","g"," ","a","t","t","a","c","k","s">>),
    TNode(<<"d","r","u","g","-","d","i","s","c","o","v","e","r","y">>, <<"D","r","u","g"," ","D","i","s","c","o","v","e","r","y">>, 58, <<"p","r","o","j","e","c","t">>, <<"Q","u","a","n","t","u","m"," ","s","i","m","u","l","a","t","i","o","n","s"," ","a","c","c","e","l","e","r","a","t","i","n","g"," ","p","h","a","r","m","a","c","e","u","t","i","c","a","l"," ","r","e","s","e","a","r","c","h">>),
    TNode(<<"o","p","t","i","m","i","z","a","t","i","o","n">>, <<"C","o","m","b","i","n","a","t","o","r","i","a","l"," ","O","p","t","i","m","i","z","a","t","i","o","n">>, 64, <<"s","k","i","l","l">>, <<"S","o","l","v","i","n","g"," ","c","o","m","p","l","e","x"," ","o","p","t","i","m","i","z","a","t","i","o","n"," ","p","r","o","b","l","e","m","s"," ","q","u","a","n","t","u","m"," ","s","p","e","e","d","u","p">>),
    TNode(<<"v","a","r","i","a","t","i","o","n","a","l","-","a","l","g","o","r","i","t","h","m","s">>, <<"V","a","r","i","a","t","i","o","n","a","l"," ","A","l","g","o","r","i","t","h","m","s">>, 66, <<"c","o","n","c","e","p","t">>, <<"H","y","b","r","i","d"," ","q","u","a","n","t","u","m","-","c","l","a","s","s","i","c","a","l"," ","a","l","g","o","r","i","t","h","m","s"," ","f","o","r"," ","n","e","a","r","-","t","e","r","m"," ","d","e","v","i","c","e","s">>),
    TNode(<<"d","a","v","i","d","-","d","e","u","t","s","c","h">>, <<"D","a","v","i","d"," ","D","e","u","t","s","c","h">>, 70, <<"p","e","r","s","o","n">>, <<"F","o","u","n","d","e","r"," ","o","f"," ","q","u","a","n","t","u","m"," ","c","o","m","p","u","t","i","n","g"," ","f","i","e","l","d"," ","t","h","e","o","r","e","t","i","c","a","l"," ","p","h","y","s","i","c","i","s","t">>),
    TNode(<<"r","i","c","h","a","r","d","-","f","e","y","n","m","a","n">>, <<"R","i","c","h","a","r","d"," ","F","e","y","n","m","a","n">>, 72, <<"p","e","r","s","o","n">>, <<"V","i","s","i","o","n","a","r","y"," ","p","r","o","p","o","s","i","n","g"," ","q","u","a","n","t","u","m"," ","c","o","m","p","u","t","e","r","s"," ","c","o","u","l","d"," ","s","i","m","u","l","a","t","e"," ","n","a","t","u","r","e">>)
  >>, <<
    TLink(<<"q","u","a","n","t","u","m","-","c","o","m","p","u","t","i","n","g">>, <<"q","u","a","n","t","u","m","-","m","e","c","h","a","n","i","c","s">>, 15, <<"b","a","s","e","d","-","o","n">>),
    TLink(<<"q","u","a","n","t","u","m","-","c","o","m","p","u","t","i","n","g">>, <<"q","u","b","i","t","s">>, 14, <<"f","u","n","d","a","m","e","n","t","a","l","-","u","n","i","t">>),
    TLink(<<"q","u","a","n","t","u","m","-","c","o","m","p","u","t","i","n","g">>, <<"q","u","a","n","t","u","m","-","g","a","t","e","s">>, 13, <<"u","s","e","s">>),
    TLink(<<"q","u","a","n","t","u","m","-","c","o","m","p","u","t","i","n","g">>, <<"q","u","a","n","t","u","m","-","a","l","g","o","r","i","t","h","m","s">>, 14, <<"i","m","p","l","e","m","e","n","t","s">>),
    TLink(<<"q","u","a","n","t","u","m","-","c","o","m","p","u","t","i","n","g">>, <<"e","r","r","o","r","-","c","o","r","r","e","c","t","i","o","n">>, 12, <<"r","e","q","u","i","r","e","s">>),
    TLink(<<"q","u","a","n","t","u","m","-","c","o","m","p","u","t","i","n","g">>, <<"q","u","a","n","t","u","m","-","a","p","p","l","i","c","a","t","i","o","n","s">>, 11, <<"e","n","a","b","l","e","s">>),
    TLink(<<"q","u","b","i","t","s">>, <<"s","u","p","e","r","p","o","s","i","t","i","o","n">>, 13, <<"e","x","h","i","b","i","t","s">>),
    TLink(<<"q","u","b","i","t","s">>, <<"e","n","t","a","n","g","l","e","m","e","n","t">>, 12, <<"e","x","h","i","b","i","t","s">>),
    TLink(<<"q","u","a","n","t","u","m","-","g","a","t","e","s">>, <<"s","u","p","e","r","p","o","s","i","t","i","o","n">>, 11, <<"m","a","n","i","p","u","l","a","t","e","s">>),
    TLink(<<"q","u","a","n","t","u","m","-","a","l","g","o","r","i","t","h","m","s">>, <<"s","h","o","r","s","-","a","l","g","o","r","i","t","h","m">>, 12, <<"i","n","c","l","u","d","e","s">>),
    TLink(<<"q","u","a","n","t","u","m","-","a","l","g","o","r","i","t","h","m","s">>, <<"g","r","o","v","e","r","s","-","a","l","g","o","r","i","t","h","m">>, 11, <<"i","n","c","l","u","d","e","s">>),
    TLink(<<"q","u","a","n","t","u","m","-","a","l","g","o","r","i","t","h","m","s">>, <<"q","u","a","n","t","u","m","-","s","i","m","u","l","a","t","i","o","n">>, 10, <<"i","n","c","l","u","d","e","s">>),
    TLink(<<"q","u","a","n","t","u","m","-","a","l","g","o","r","i","t","h","m","s">>, <<"v","a","r","i","a","t","i","o","n","a","l","-","a","l","g","o","r","i","t","h","m","s">>, 10, <<"i","n","c","l","u","d","e","s">>),
    TLink(<<"s","h","o","r","s","-","a","l","g","o","r","i","t","h","m">>, <<"c","r","y","p","t","o","g","r","a","p","h","y">>, 12, <<"t","h","r","e","a","t","e","n","s">>),
    TLink(<<"g","r","o","v","e","r","s","-","a","l","g","o","r","i","t","h","m">>, <<"o","p","t","i","m","i","z","a","t","i","o","n">>, 10, <<"e","n","a","b","l","e","s">>),
    TLink(<<"q","u","a","n","t","u","m","-","s","i","m","u","l","a","t","i","o","n">>, <<"d","r","u","g","-","d","i","s","c","o","v","e","r","y">>, 11, <<"a","c","c","e","l","e","r","a","t","e","s">>),
    TLink(<<"v","a","r","i","a","t","i","o","n","a","l","-","a","l","g","o","r","i","t","h","m","s">>, <<"o","p","t","i","m","i","z","a","t","i","o","n">>, 11, <<"s","o","l","v","e","s">>),
    TLink(<<"d","a","v","i","d","-","d","e","u","t","s","c","h">>, <<"q","u","a","n","t","u","m","-","c","o","m","p","u","t","i","n","g">>, 13, <<"f","o","u","n","d","e","d">>),
    TLink(<<"r","i","c","h","a","r","d","-","f","e","y","n","m","a","n">>, <<"q","u","a","n","t","u","m","-","c","o","m","p","u","t","i","n","g">>, 13, <<"p","i","o","n","e","e","r","e","d">>),
    TLink(<<"r","i","c","h","a","r","d","-","f","e","y","n","m","a","n">>, <<"q","u","a","n","t","u","m","-","s","i","m","u","l","a","t","i","o","n">>, 11, <<"p","r","o","p","o","s","e","d">>),
    TLink(<<"i","b","m","-","q","u","a","n","t","u","m">>, <<"q","u","a","n","t","u","m","-","g","a","t","e","s">>, 10, <<"p","r","o","v","i","d","e","s">>),
    TLink(<<"g","o","o","g","l","e","-","s","y","c","a","m","o","r","e">>, <<"q","u","a","n","t","u","m","-","s","u","p","r","e","m","a","c","y">>, 11, <<"d","e","m","o","n","s","t","r","a","t","e","s">>),
    TLink(<<"e","r","r","o","r","-","c","o","r","r","e","c","t","i","o","n">>, <<"q","u","a","n","t","u","m","-","g","a","t","e","s">>, 10, <<"p","r","o","t","e","c","t","s">>)
  >>)

\* The registry object: its own keys, each mapped to the name of its arrow function.
DUMMY_DATA_TEMPLATES ==
  ( <<"m","a","c","h","i","n","e","-","l","e","a","r","n","i","n","g">>
      :> "TemplateMachineLearning" ) @@
  ( <<"w","e","b","-","d","e","v","e","l","o","p","m","e","n","t">>
      :> "TemplateWebDevelopment" ) @@
  ( <<"q","u","a","n","t","u","m","-","c","o","m","p","u","t","i","n","g">>
      :> "TemplateQuantumComputing" )

\* Calling a registry arrow function evaluates its object literal.
CallTemplate(name) ==
  CASE name = "TemplateMachineLearning" -> TemplateMachineLearning
    [] name = "TemplateWebDevelopment" -> TemplateWebDevelopment
    [] name = "TemplateQuantumComputing" -> TemplateQuantumComputing

\* The all-lower-case property names a plain object inherits from Object.prototype:
\* constructor (the function Object) and __proto__ (Object.prototype itself).
ConstructorKey == <<"c","o","n","s","t","r","u","c","t","o","r">>
ProtoKey == <<"_","_","p","r","o","t","o","_","_">>

\* reg[normalizedTopic]: an own key's arrow function, an inherited property, or
\* undefined.
Lookup(reg, key) ==
  IF key \in DOMAIN reg THEN [kind |-> "template", name |-> reg[key]]
  ELSE IF key = ConstructorKey THEN [kind |-> "Object", name |-> ""]
  ELSE IF key = ProtoKey THEN [kind |-> "Object.prototype", name |-> ""]
  ELSE [kind |-> "undefined", name |-> ""]

---------------------------------------------------------------------------
(* fetchGraphData (ai.ts 884-906). *)

\* The object a template's arrow function returns lives at a fresh reference: the
\* literal is evaluated anew on every call.
Allocate(h, ref, value) == [heap |-> h @@ (ref :> [value |-> value, edits |-> 0]), ref |-> ref]
\* A registry that kept one object per template and handed it out again.
TemplateObjectShared(h, cs, ref, name) ==
  LET earlier == {k \in DOMAIN cs :
                    /\ cs[k].settled.state = "fulfilled"
                    /\ Lookup(DUMMY_DATA_TEMPLATES, NormalizeTopic(cs[k].topic)).name = name}
  IN IF earlier = {} THEN Allocate(h, ref, CallTemplate(name))
     ELSE [heap |-> h, ref |-> cs[CHOOSE k \in earlier : TRUE].settled.ref]
TemplateObject(h, cs, ref, name) == Allocate(h, ref, CallTemplate(name))

\* A facade that returned graphData unvalidated.
ReturnUnvalidated(graphData) == Returned("true")

\* validateGraphData(graphData); return graphData
ValidateBeforeReturning(graphData) == validateGraphData(graphData).outcome

Fulfilled(ref, value) ==
  [state |-> "fulfilled", ref |-> ref, value |-> value, error |-> Undefined]
Rejected(error) ==
  [state |-> "rejected", ref |-> 0, value |-> Undefined, error |-> error]

\* A facade that, when the template's graph fails validation, serves the generic
\* generator's graph instead.
fetchWithFallback(reg, h, cs, ref, t, draws) ==
  LET generator == Lookup(reg, NormalizeTopic(t))
      fromTemplate == generator.kind = "template"
                        /\ validateGraphData(CallTemplate(generator.name)).outcome.type = "return"
      built == IF fromTemplate THEN TemplateObject(h, cs, ref, generator.name)
               ELSE Allocate(h, ref, generateGenericGraphData(t, draws))
      graphData == built.heap[built.ref].value
      checked == ValidateBeforeReturning(graphData)
  IN IF checked.type # "return" THEN [heap |-> h, settled |-> Rejected(checked)]
     ELSE [heap |-> built.heap, settled |-> Fulfilled(built.ref, graphData)]

\* The body of fetchGraphData after its timer, for the call numbered ref (an object
\* the call creates gets the call's number as its reference): the promise's
\* settlement and the heap it leaves.  A graph that is not returned is garbage and
\* is not kept.
fetchGraphData(reg, h, cs, ref, t, draws) ==
  LET normalizedTopic == NormalizeTopic(t)
      generator == Lookup(reg, normalizedTopic)
      built ==
        CASE generator.kind = "template" -> TemplateObject(h, cs, ref, generator.name)
          [] generator.kind = "Object" -> Allocate(h, ref, Obj(<<>>))
          [] generator.kind = "undefined" ->
               Allocate(h, ref, generateGenericGraphData(t, draws))
      graphData == built.heap[built.ref].value
      checked == ValidateBeforeReturning(graphData)
  IN IF generator.kind = "Object.prototype"
       THEN [heap |-> h, settled |-> Rejected([type |-> "TypeError",
                                              code |-> "generator is not a function",
                                              arg |-> <<>>])]
     ELSE IF checked.type # "return" THEN [heap |-> h, settled |-> Rejected(checked)]
     ELSE [heap |-> built.heap, settled |-> Fulfilled(built.ref, graphData)]

---------------------------------------------------------------------------
(* The facade as a state machine: callers start fetchGraphData calls, each call's
   500 ms timer fires in any order, and callers edit the graphs they received. *)

\* Topic strings callers pass: the documented spellings of the template topics,
\* an unknown topic, the empty and the white-space-only string, a capital outside
\* ASCII, and the names a plain object inherits.
FetchTopics ==
  { <<"m","a","c","h","i","n","e"," ","l","e","a","r","n","i","n","g">>,
    <<"W","e","b","\t","D","e","v","e","l","o","p","m","e","n","t">>,
    <<"q","u","a","n","t","u","m","-","c","o","m","p","u","t","i","n","g">>,
    <<"u","n","k","n","o","w","n"," ","t","o","p","i","c">>,
    <<>>,
    <<" ">>,
    <<"U+00C9">>,
    ConstructorKey,
    ProtoKey }

Pending == [state |-> "pending", ref |-> 0, value |-> Undefined, error |-> Undefined]

\* What a caller does in place to a graph it holds.  The force-graph component the
\* graph is handed to (GalaxyGraph.tsx 253-255) replaces every link's source and
\* target id by the node object; other callers may push and pop.
ResolveEndpoints(g) ==
  LET nodes == g.f.nodes.a
      ids == [i \in DOMAIN nodes |-> Get(nodes[i], "id")]
      NodeOf(id) == nodes[CHOOSE i \in DOMAIN nodes : ids[i] = id]
      Resolved(link) ==
        Obj([k \in DOMAIN link.f |->
               IF k \in {"source", "target"} /\ TypeOf(link.f[k]) = "string"
               THEN NodeOf(link.f[k]) ELSE link.f[k]])
  IN Obj([g.f EXCEPT !.links = Arr([j \in DOMAIN g.f.links.a |-> Resolved(g.f.links.a[j])])])

PopLink(g) ==
  Obj([g.f EXCEPT !.links = Arr(SubSeq(g.f.links.a, 1, Len(g.f.links.a) - 1))])

PushNode(g) ==
  Obj([g.f EXCEPT !.nodes = Arr(Append(g.f.nodes.a, g.f.nodes.a[1]))])

EditKinds == {"resolve-endpoints", "pop-link", "push-node"}

\* The caller edits made so far, over all graph objects.
RECURSIVE EditsIn(_, _)
EditsIn(h, refs) ==
  IF refs = {} THEN 0
  ELSE LET r == CHOOSE x \in refs : TRUE IN h[r].edits + EditsIn(h, refs \ {r})

ApplyEdit(kind, g) ==
  CASE kind = "resolve-endpoints" -> ResolveEndpoints(g)
    [] kind = "pop-link" -> PopLink(g)
    [] kind = "push-node" -> PushNode(g)

Init ==
  /\ registry = DUMMY_DATA_TEMPLATES
  /\ calls = <<>>
  /\ heap = <<>>
  /\ topic = <<>>
  /\ generated = Undefined
  /\ data = Undefined
  /\ verdict = Undefined
  /\ response = Undefined
  /\ parsed = Undefined
  /\ hook = Undefined
  /\ viewer = Undefined

\* A caller calls fetchGraphData(t): the call suspends on its timer.
Fetch(t) ==
  /\ Len(calls) < MaxCalls
  /\ calls' = Append(calls, [topic |-> t, settled |-> Pending])
  /\ UNCHANGED <<registry, heap, topic, generated, data, verdict, response, parsed, hook, viewer>>

\* Math.random() is called only on the generic branch: the draws a call can make,
\* here every draw the least or every draw the greatest.
ExtremeDraws ==
  {[j \in 1 .. NodesAfterRoot |-> 0], [j \in 1 .. NodesAfterRoot |-> RandomSteps]}

DrawsOf(reg, t) ==
  IF Lookup(reg, NormalizeTopic(t)).kind = "undefined" THEN ExtremeDraws
  ELSE {[j \in 1 .. NodesAfterRoot |-> 0]}

\* A facade that kept the topic in a variable of the module, which every call
\* overwrites: after its timer a call works on the topic of the latest call.
TimerFiresSharedTopic(i) ==
  /\ calls[i].settled.state = "pending"
  /\ \E draws \in DrawsOf(registry, calls[Len(calls)].topic) :
       LET r == fetchGraphData(registry, heap, calls, i, calls[Len(calls)].topic, draws)
       IN /\ calls' = [calls EXCEPT ![i].settled = r.settled]
          /\ heap' = r.heap
  /\ UNCHANGED <<registry, topic, generated, data, verdict, response, parsed, hook, viewer>>

\* The timer of call i fires and the rest of fetchGraphData runs to its return or
\* throw.
TimerFires(i) ==
  /\ calls[i].settled.state = "pending"
  /\ \E draws \in DrawsOf(registry, calls[i].topic) :
       LET r == fetchGraphData(registry, heap, calls, i, calls[i].topic, draws)
       IN /\ calls' = [calls EXCEPT ![i].settled = r.settled]
          /\ heap' = r.heap
  /\ UNCHANGED <<registry, topic, generated, data, verdict, response, parsed, hook, viewer>>

\* A caller edits, in place, the graph object at reference r.
CallerEdits(r, kind) ==
  /\ EditsIn(heap, DOMAIN heap) < MaxEdits
  /\ kind = "pop-link" => Len(heap[r].value.f.links.a) > 0
  /\ heap' = [heap EXCEPT ![r] = [value |-> ApplyEdit(kind, heap[r].value),
                                  edits |-> heap[r].edits + 1]]
  /\ UNCHANGED <<registry, calls, topic, generated, data, verdict, response, parsed, hook, viewer>>

\* The facade alone: calls and their timers.
Next ==
  \/ \E t \in FetchTopics : Fetch(t)
  \/ \E i \in DOMAIN calls : TimerFires(i)

Spec == Init /\ [][Next]_vars

\* The facade with callers that edit what they received: a template topic whose
\* graph is refused, one whose graph is returned, and an unknown topic.
CallerTopics ==
  { <<"m","a","c","h","i","n","e"," ","l","e","a","r","n","i","n","g">>,
    <<"W","e","b","\t","D","e","v","e","l","o","p","m","e","n","t">>,
    <<"u","n","k","n","o","w","n"," ","t","o","p","i","c">> }

NextCallers ==
  \/ \E t \in CallerTopics : Fetch(t)
  \/ \E i \in DOMAIN calls : TimerFires(i)
  \/ \E r \in DOMAIN heap, kind \in EditKinds : CallerEdits(r, kind)

SpecCallers == Init /\ [][NextCallers]_vars

---------------------------------------------------------------------------
(* generateGenericGraphData as a state machine: called on a topic, it returns. *)

\* Characters of the enumerated topics: a lower-case and an upper-case letter,
\* two white-space characters, the hyphen and a capital outside ASCII.
TopicChars == {"a", "B", " ", "\t", "-", "U+00C9"}

SeqsUpTo(S, n) == UNION {[1 .. k -> S] : k \in 0 .. n}

\* Every string over TopicChars up to MaxTopicLen, and the topics callers pass.
GenTopics == SeqsUpTo(TopicChars, MaxTopicLen) \cup FetchTopics \cup CallerTopics

InitGen ==
  /\ registry = DUMMY_DATA_TEMPLATES
  /\ calls = <<>>
  /\ heap = <<>>
  /\ topic \in GenTopics
  /\ generated = Undefined
  /\ data = Undefined
  /\ verdict = Undefined
  /\ response = Undefined
  /\ parsed = Undefined
  /\ hook = Undefined
  /\ viewer = Undefined

Generate ==
  /\ generated = Undefined
  /\ \E draws \in DrawPatterns : generated' = generateGenericGraphData(topic, draws)
  /\ UNCHANGED <<registry, calls, heap, topic, data, verdict, response, parsed, hook, viewer>>

NextGen == Generate

SpecGen == InitGen /\ [][NextGen]_vars

---------------------------------------------------------------------------
(* validateGraphData as a state machine: called on a candidate, it returns or
   throws.  The candidates are values JSON.parse can produce: lists of nodes and
   links drawn from two pools, and malformed containers. *)

PoolNode(id, name, val, category) ==
  Obj([id |-> Str(id), name |-> Str(name), val |-> val, category |-> Str(category)])

NodeA == NodeObj(Str(<<"a">>), Str(<<"A">>), Number(50), Str(<<"c","o","n","c","e","p","t">>),
                 Str(<<"d">>))
\* importance 0 and a category outside the enumerated set
NodeB == PoolNode(<<"b">>, <<"B">>, Number(0), <<"w","e","i","r","d">>)
\* importance 100, and the id of NodeA
NodeA2 == PoolNode(<<"a">>, <<"B">>, Number(100), <<"t","o","p","i","c">>)
NodeC == PoolNode(<<"c">>, <<"C">>, Number(50), <<"s","k","i","l","l">>)
NodeNoId == Obj([name |-> Str(<<"C">>), val |-> Number(50), category |-> Str(<<"s","k","i","l","l">>)])
NodeNoName == PoolNode(<<"c">>, <<>>, Number(50), <<"s","k","i","l","l">>)
\* one tick below 0 and one tick above 100
NodeLow == PoolNode(<<"c">>, <<"C">>, Num(-1), <<"s","k","i","l","l">>)
NodeHigh == PoolNode(<<"c">>, <<"C">>, Num(100 * RandomSteps + 1), <<"s","k","i","l","l">>)
\* a string for importance, and no category either
NodeStrVal == Obj([id |-> Str(<<"c">>), name |-> Str(<<"C">>), val |-> Str(<<"5","0">>)])
NodeNoCategory == Obj([id |-> Str(<<"c">>), name |-> Str(<<"C">>), val |-> Number(50)])

NodePool ==
  {NodeA, NodeB, NodeA2, NodeNoId, NodeNoName, NodeLow, NodeHigh, NodeStrVal,
   NodeNoCategory, Null}

PoolLink(source, target) == Obj([source |-> source, target |-> target])

LinkPool ==
  { PoolLink(Str(<<"a">>), Str(<<"b">>)),
    PoolLink(Str(<<"a">>), Str(<<"a">>)),
    PoolLink(NodeA, NodeB),
    PoolLink(Str(<<"a">>), Str(<<"c">>)),
    PoolLink(Str(<<"c">>), Str(<<"a">>)),
    PoolLink(Str(<<"c">>), Str(<<>>)),
    PoolLink(Str(<<>>), Str(<<"a">>)),
    PoolLink(Str(<<"a">>), NodeC),
    PoolLink(Str(<<"a">>), Null),
    PoolLink(NodeNoId, Str(<<"a">>)),
    Obj([source |-> Str(<<"a">>)]),
    Null }

\* A graph of at most MaxItems nodes and links together.
WellFormedCandidate(d) ==
  \E n \in 0 .. MaxItems, m \in 0 .. MaxItems :
    /\ n + m <= MaxItems
    /\ \E ns \in [1 .. n -> NodePool], ls \in [1 .. m -> LinkPool] : d = GraphObj(ns, ls)

\* A container whose node or link collection is missing or is not a list.
MalformedCandidates ==
  { Null, Obj(<<>>), Str(<<"x">>), Arr(<<>>) }
  \cup { Obj([nodes |-> Arr(ns)]) : ns \in SeqsUpTo(NodePool, 1) }
  \cup { Obj([links |-> Arr(ls)]) : ls \in SeqsUpTo(LinkPool, 1) }
  \cup { Obj([nodes |-> n, links |-> Arr(<<>>)]) : n \in {Null, Str(<<"x">>), Obj(<<>>)} }
  \cup { Obj([nodes |-> Arr(ns), links |-> l]) :
           ns \in SeqsUpTo(NodePool, 1), l \in {Null, Str(<<"x">>), Obj(<<>>)} }

InitVal ==
  /\ registry = DUMMY_DATA_TEMPLATES
  /\ calls = <<>>
  /\ heap = <<>>
  /\ topic = <<>>
  /\ generated = Undefined
  /\ data \in MalformedCandidates \/ WellFormedCandidate(data)
  /\ verdict = Undefined
  /\ response = Undefined
  /\ parsed = Undefined
  /\ hook = Undefined
  /\ viewer = Undefined

\* A validator that strips the link list off the graph it was given.
ValidateStrippingLinks ==
  /\ verdict = Undefined
  /\ verdict' = validateGraphData(data)
  /\ data' = IF data.t = "object" /\ "links" \in DOMAIN data.f
             THEN Obj([k \in DOMAIN data.f \ {"links"} |-> data.f[k]])
             ELSE Null
  /\ UNCHANGED <<registry, calls, heap, topic, generated, response, parsed, hook, viewer>>

Validate ==
  /\ verdict = Undefined
  /\ verdict' = validateGraphData(data)
  /\ UNCHANGED <<registry, calls, heap, topic, generated, data, response, parsed, hook, viewer>>

NextVal == Validate

SpecVal == InitVal /\ [][NextVal]_vars

---------------------------------------------------------------------------
(* JSON texts.  A text is given by its syntax: a value of the JSON grammar, an
   object being the sequence of its members as written, or characters that the
   grammar does not derive. *)

JsonNull == [j |-> "null"]
JsonBool(b) == [j |-> "boolean", b |-> b]
\* the literal of the number of n ticks
JsonNumber(n) == [j |-> "number", n |-> n]
JsonString(s) == [j |-> "string", s |-> s]
JsonArray(elements) == [j |-> "array", elements |-> elements]
JsonMember(key, value) == [key |-> key, value |-> value]
JsonObject(members) == [j |-> "object", members |-> members]
NotJson(chars) == [j |-> "none", chars |-> chars]

\* The JavaScript value a JSON value denotes: arrays and objects are built anew,
\* and of the members of an object that share a key the last one counts.
RECURSIVE Revive(_)
Revive(x) ==
  CASE x.j = "null" -> Null
    [] x.j = "boolean" -> Bool(x.b)
    [] x.j = "number" -> Num(x.n)
    [] x.j = "string" -> Str(x.s)
    [] x.j = "array" -> Arr(<<>> \o [i \in DOMAIN x.elements |-> Revive(x.elements[i])])
    [] x.j = "object" ->
         LET members == x.members
             keys == {members[i].key : i \in DOMAIN members}
             LastOf(k) == CHOOSE i \in DOMAIN members :
                            /\ members[i].key = k
                            /\ \A m \in DOMAIN members : m > i => members[m].key # k
         IN Obj([k \in keys |-> Revive(members[LastOf(k)].value)])

\* The error JSON.parse throws; arg holds its message.
SyntaxError(message) == [type |-> "SyntaxError", code |-> "SyntaxError", arg |-> message]

\* What JSON.parse ends with: a value returned, or an error thrown.
ParseResult(outcome, value) == [outcome |-> outcome, value |-> value]

\* JSON.parse(text): the value, or the SyntaxError thrown.
JSONParse(text) ==
  IF text.j = "none"
  THEN ParseResult(SyntaxError(<<"U","n","e","x","p","e","c","t","e","d"," ","t","o","k","e","n">>), Undefined)
  ELSE ParseResult(Returned("value"), Revive(text))

\* The elements of a finite set in some order.
RECURSIVE SetToSeq(_)
SetToSeq(S) ==
  IF S = {} THEN <<>>
  ELSE LET x == CHOOSE y \in S : TRUE IN <<x>> \o SetToSeq(S \ {x})

\* JSON.stringify(v) for a value that is not undefined: a property whose value is
\* undefined is left out, an undefined array element is written null.
RECURSIVE JSONStringify(_)
JSONStringify(v) ==
  CASE v.t \in {"null", "undefined"} -> JsonNull
    [] v.t = "boolean" -> JsonBool(v.b)
    [] v.t = "number" -> JsonNumber(v.n)
    [] v.t = "string" -> JsonString(v.s)
    [] v.t = "array" -> JsonArray(<<>> \o [i \in DOMAIN v.a |-> JSONStringify(v.a[i])])
    [] v.t = "object" ->
         LET keys == SetToSeq({k \in DOMAIN v.f : v.f[k].t # "undefined"})
         IN JsonObject(<<>> \o [i \in DOMAIN keys |->
                                  JsonMember(keys[i], JSONStringify(v.f[keys[i]]))])

---------------------------------------------------------------------------
(* parseGraphDataResponse (ai.ts 1030-1046). *)

ReturnedGraph(value) == [state |-> "returned", value |-> value, error |-> Undefined]
Threw(error) == [state |-> "threw", value |-> Undefined, error |-> error]

\* A catch clause that reports every error as invalid JSON.
CatchEverything(error) ==
  Error("Invalid JSON response from Claude: ${error.message}. Ensure system prompt enforces strict JSON output.",
        error.arg)

\* catch (error): a SyntaxError is replaced by an Error that quotes its message,
\* anything else is thrown on.
CatchClause(error) ==
  IF error.type = "SyntaxError"
  THEN Error("Invalid JSON response from Claude: ${error.message}. Ensure system prompt enforces strict JSON output.",
             error.arg)
  ELSE error

\* A parser that returns what JSON.parse gave without validating it.
parseWithoutValidation(text) ==
  LET json == JSONParse(text)
  IN IF json.outcome.type # "return" THEN Threw(CatchClause(json.outcome))
     ELSE ReturnedGraph(json.value)

\* A parser that falls back to a generated graph when validation fails.
parseWithFallback(text) ==
  LET json == JSONParse(text)
      checked == validateGraphData(json.value).outcome
  IN IF json.outcome.type # "return" THEN Threw(CatchClause(json.outcome))
     ELSE IF checked.type # "return"
       THEN ReturnedGraph(generateGenericGraphData(<<"f">>, [j \in 1 .. NodesAfterRoot |-> 0]))
     ELSE ReturnedGraph(json.value)

parseGraphDataResponse(text) ==
  LET json == JSONParse(text)
      checked == validateGraphData(json.value).outcome
  IN IF json.outcome.type # "return" THEN Threw(CatchClause(json.outcome))
     ELSE IF checked.type # "return" THEN Threw(CatchClause(checked))
     ELSE ReturnedGraph(json.value)

---------------------------------------------------------------------------
(* parseGraphDataResponse as a state machine: called on a text, it returns or
   throws.  The texts: some that are not JSON, JSON values that are not objects,
   objects with a missing or a repeated member, graphs of pooled nodes and links,
   and the template graphs as JSON.stringify writes them. *)

NotJsonTexts ==
  { NotJson(<<"n","o","t"," ","j","s","o","n">>),
    NotJson(<<>>),
    NotJson(<<"{","n","o","d","e","s",":"," ","[","]","}">>),
    NotJson(<<"{","\"","n","o","d","e","s","\"",":"," ","[">>) }

\* The literal text {"nodes": []}
NodesOnlyText == JsonObject(<<JsonMember("nodes", JsonArray(<<>>))>>)

OtherTexts ==
  { JsonNull, JsonBool(TRUE), JsonNumber(5 * RandomSteps), JsonString(<<"x">>),
    JsonArray(<<>>), JsonObject(<<>>), NodesOnlyText,
    JsonObject(<<JsonMember("nodes", JsonArray(<<>>)),
                 JsonMember("nodes", JsonArray(<<JSONStringify(NodeA)>>)),
                 JsonMember("links", JsonArray(<<>>))>>),
    JsonObject(<<JsonMember("nodes", JsonArray(<<JSONStringify(NodeA)>>)),
                 JsonMember("links", JsonNull)>>) }

TextNodePool == {JSONStringify(n) : n \in {NodeA, NodeB, NodeA2, NodeNoId, NodeLow, Null}}
TextLinkPool ==
  {JSONStringify(l) : l \in { PoolLink(Str(<<"a">>), Str(<<"b">>)),
                              PoolLink(NodeA, NodeB),
                              PoolLink(Str(<<"a">>), Str(<<"c">>)),
                              PoolLink(Str(<<"c">>), Str(<<>>)),
                              PoolLink(Str(<<"a">>), Null),
                              Null }}

\* A graph of at most MaxItems pooled nodes and links together, as a text.
GraphText(r) ==
  \E n \in 0 .. MaxItems, m \in 0 .. MaxItems :
    /\ n + m <= MaxItems
    /\ \E ns \in [1 .. n -> TextNodePool], ls \in [1 .. m -> TextLinkPool] :
         r = JsonObject(<<JsonMember("nodes", JsonArray(ns)), JsonMember("links", JsonArray(ls))>>)

\* JSON.stringify of the graph a registry entry builds.
TemplateText(r) ==
  \E key \in DOMAIN DUMMY_DATA_TEMPLATES :
    r = JSONStringify(CallTemplate(DUMMY_DATA_TEMPLATES[key]))

InitParse ==
  /\ registry = DUMMY_DATA_TEMPLATES
  /\ calls = <<>>
  /\ heap = <<>>
  /\ topic = <<>>
  /\ generated = Undefined
  /\ data = Undefined
  /\ verdict = Undefined
  /\ \/ response \in NotJsonTexts \cup OtherTexts
     \/ GraphText(response)
     \/ TemplateText(response)
  /\ parsed = Undefined
  /\ hook = Undefined
  /\ viewer = Undefined

Parse ==
  /\ parsed = Undefined
  /\ parsed' = parseGraphDataResponse(response)
  /\ UNCHANGED <<registry, calls, heap, topic, generated, data, verdict, response, hook, viewer>>

NextParse == Parse

SpecParse == InitParse /\ [][NextParse]_vars

---------------------------------------------------------------------------
(* The graph types (types/graph.ts). *)

\* type NodeCategory
NodeCategory ==
  { <<"c","o","n","c","e","p","t">>, <<"p","e","r","s","o","n">>, <<"t","o","p","i","c">>,
    <<"r","e","s","o","u","r","c","e">>, <<"s","k","i","l","l">>,
    <<"p","r","o","j","e","c","t">>, <<"o","t","h","e","r">> }

---------------------------------------------------------------------------
(* The service under concurrent use: fetchGraphData calls pending together, their
   timers firing in any order, and between them calls of validateGraphData,
   parseGraphDataResponse and generateGenericGraphData, each of which runs to its
   end without suspending. *)

\* Topics of the calls pending together: a template topic, whose graph the
\* validator refuses, and an unknown topic.
ConcurrentTopics ==
  { <<"q","u","a","n","t","u","m","-","c","o","m","p","u","t","i","n","g">>,
    <<"u","n","k","n","o","w","n"," ","t","o","p","i","c">> }

\* What the interleaved calls are given: a graph a fetchGraphData call returned or
\* a pooled candidate, a text, a topic.
ValidateInputs(h) ==
  {h[r].value : r \in DOMAIN h}
  \cup {GraphObj(<<NodeA>>, <<PoolLink(Str(<<"a">>), Str(<<"b">>))>>)}
ParseInputs == {NodesOnlyText}
GenerateInputs == {<<"a">>}

ValidateCall(d) ==
  /\ verdict = Undefined
  /\ data' = d
  /\ verdict' = validateGraphData(d)
  /\ UNCHANGED <<registry, calls, heap, topic, generated, response, parsed, hook, viewer>>

ParseCall(r) ==
  /\ parsed = Undefined
  /\ response' = r
  /\ parsed' = parseGraphDataResponse(r)
  /\ UNCHANGED <<registry, calls, heap, topic, generated, data, verdict, hook, viewer>>

GenerateCall(t) ==
  /\ generated = Undefined
  /\ topic' = t
  /\ \E draws \in DrawsOf(registry, t) : generated' = generateGenericGraphData(t, draws)
  /\ UNCHANGED <<registry, calls, heap, data, verdict, response, parsed, hook, viewer>>

NextConcurrent ==
  \/ \E t \in ConcurrentTopics : Fetch(t)
  \/ \E i \in DOMAIN calls : TimerFires(i)
  \/ \E d \in ValidateInputs(heap) : ValidateCall(d)
  \/ \E r \in ParseInputs : ParseCall(r)
  \/ \E t \in GenerateInputs : GenerateCall(t)

SpecConcurrent == Init /\ [][NextConcurrent]_vars

---------------------------------------------------------------------------
(* useGraphData (hooks/useGraphData.ts): the two pieces of state of one hook
   instance, and the graph its callbacks close over.  filterGraph, addNode and
   addLink are created anew in a render in which graphData changed, and read the
   graphData of that render; the caller holds the callbacks of the latest render. *)

MaxHookItems == 5

EmptyGraph == GraphObj(<<>>, <<>>)

\* What the hook is after its first render: useState(initialData || {nodes: [],
\* links: []}) and useState(graphData).  loaded tells whether a graph was ever
\* given to the hook, and last which call or render came last.
Mounted(initialData) ==
  LET graphData == IF Falsy(initialData) THEN EmptyGraph ELSE initialData
  IN [graphData |-> graphData, filteredData |-> graphData, closure |-> graphData,
      loaded |-> ~Falsy(initialData), last |-> [op |-> "mount", arg |-> initialData]]

\* a.includes(v) of an array, and s.includes(q) of strings
ArrayIncludes(a, v) == \E i \in DOMAIN a : a[i] = v
StringIncludes(s, q) ==
  \E i \in 0 .. Len(s) - Len(q) : SubSeq(s, i + 1, i + Len(q)) = q

\* node.val >= minValue and node.val <= maxValue: false unless both are numbers
GreaterOrEqual(a, b) == a.t = "number" /\ b.t = "number" /\ a.n >= b.n

\* The four filters of filterGraph on the node list, in the order of the code.
ByCategories(options, nodes) ==
  LET categories == Get(options, "categories")
      Keep(node) == ArrayIncludes(categories.a, Get(node, "category"))
  IN IF ~Falsy(categories) /\ Len(categories.a) > 0 THEN SelectSeq(nodes, Keep) ELSE nodes

ByMinValue(options, nodes) ==
  LET minValue == Get(options, "minValue")
      Keep(node) == GreaterOrEqual(Get(node, "val"), minValue)
  IN IF minValue # Undefined THEN SelectSeq(nodes, Keep) ELSE nodes

ByMaxValue(options, nodes) ==
  LET maxValue == Get(options, "maxValue")
      Keep(node) == GreaterOrEqual(maxValue, Get(node, "val"))
  IN IF maxValue # Undefined THEN SelectSeq(nodes, Keep) ELSE nodes

BySearchQuery(options, nodes) ==
  LET searchQuery == Get(options, "searchQuery")
      query == ToLowerCase(searchQuery.s)
      Keep(node) ==
        \/ StringIncludes(ToLowerCase(Get(node, "name").s), query)
        \/ /\ CanRead(Get(node, "description"))
           /\ StringIncludes(ToLowerCase(Get(node, "description").s), query)
  IN IF ~Falsy(searchQuery) THEN SelectSeq(nodes, Keep) ELSE nodes

\* typeof link.source === 'string' ? link.source : link.source.id
EndpointIdOf(endpoint) == IF TypeOf(endpoint) = "string" THEN endpoint ELSE Get(endpoint, "id")

\* The links whose two endpoints are ids of the nodes kept.
LinksBetween(links, nodes) ==
  LET nodeIds == {Get(nodes[i], "id") : i \in DOMAIN nodes}
      Keep(link) == /\ Has(nodeIds, EndpointIdOf(Get(link, "source")))
                    /\ Has(nodeIds, EndpointIdOf(Get(link, "target")))
  IN SelectSeq(links, Keep)

\* The object filterGraph passes to setFilteredData: a copy of graphData with its
\* own node and link lists.
Filtered(graphData, options) ==
  LET nodes == BySearchQuery(options,
                 ByMaxValue(options,
                   ByMinValue(options,
                     ByCategories(options, graphData.f.nodes.a))))
  IN Obj([graphData.f EXCEPT !.nodes = Arr(nodes),
                             !.links = Arr(LinksBetween(graphData.f.links.a, nodes))])

\* {...graphData, nodes: [...graphData.nodes, node]} and the same for links
WithNode(graphData, node) ==
  Obj([graphData.f EXCEPT !.nodes = Arr(Append(graphData.f.nodes.a, node))])
WithLink(graphData, link) ==
  Obj([graphData.f EXCEPT !.links = Arr(Append(graphData.f.links.a, link))])

\* A callback reads graphData as hook.closure: the graph of the render the
\* callback was created in.

\* The graphs loaded into the hook are graphs validateGraphData accepts: two nodes
\* and a link between them, written with bare ids or, as the force-graph
\* component leaves it, with the node objects.
HookGraphs ==
  { GraphObj(<<NodeA, NodeB>>, <<PoolLink(Str(<<"a">>), Str(<<"b">>))>>),
    GraphObj(<<NodeA, NodeC>>, <<PoolLink(NodeA, NodeC)>>) }

\* The nodes and links callers add: a new node, a node with the id of a node
\* loaded, a link to the new node and a link between nodes loaded.
NodesAdded == {NodeC, NodeA2}
LinksAdded == {PoolLink(Str(<<"c">>), Str(<<"a">>)), PoolLink(Str(<<"a">>), NodeA)}

\* GraphFilterOptions: no criterion, an empty and a one-entry category list, a
\* least and a greatest importance, a query in capitals, and all four together.
FilterOptions ==
  { Obj(<<>>),
    Obj([categories |-> Arr(<<>>)]),
    Obj([categories |-> Arr(<<Str(<<"c","o","n","c","e","p","t">>)>>)]),
    Obj([minValue |-> Number(50)]),
    Obj([maxValue |-> Number(0)]),
    Obj([searchQuery |-> Str(<<"C">>)]),
    Obj([categories |-> Arr(<<Str(<<"s","k","i","l","l">>), Str(<<"t","o","p","i","c">>)>>),
         minValue |-> Number(50), maxValue |-> Number(100), searchQuery |-> Str(<<"b">>)]) }

InitHook ==
  /\ registry = DUMMY_DATA_TEMPLATES
  /\ calls = <<>>
  /\ heap = <<>>
  /\ topic = <<>>
  /\ generated = Undefined
  /\ data = Undefined
  /\ verdict = Undefined
  /\ response = Undefined
  /\ parsed = Undefined
  /\ \E initialData \in {Undefined} \cup HookGraphs : hook = Mounted(initialData)
  /\ viewer = Undefined

\* updateGraphData(data): setGraphData(data); setFilteredData(data)
updateGraphData(h, d) == [h EXCEPT !.graphData = d, !.filteredData = d]

UpdateGraphData(d) ==
  /\ hook' = [updateGraphData(hook, d) EXCEPT !.loaded = TRUE,
                                              !.last = [op |-> "updateGraphData", arg |-> d]]
  /\ UNCHANGED <<registry, calls, heap, topic, generated, data, verdict, response, parsed, viewer>>

\* A filterGraph that wrote the filtered lists into graphData itself.
FilterGraphInPlace(options) ==
  /\ hook' = [hook EXCEPT !.filteredData = Filtered(hook.closure, options),
                          !.graphData = Filtered(hook.closure, options),
                          !.last = [op |-> "filterGraph", arg |-> options]]
  /\ UNCHANGED <<registry, calls, heap, topic, generated, data, verdict, response, parsed, viewer>>

\* filterGraph(options): setFilteredData(filtered)
FilterGraph(options) ==
  /\ hook' = [hook EXCEPT !.filteredData = Filtered(hook.closure, options),
                          !.last = [op |-> "filterGraph", arg |-> options]]
  /\ UNCHANGED <<registry, calls, heap, topic, generated, data, verdict, response, parsed, viewer>>


\* addNode(node): updateGraphData({...graphData, nodes: [...graphData.nodes, node]})
AddNode(node) ==
  /\ Len(hook.closure.f.nodes.a) + Len(hook.closure.f.links.a) < MaxHookItems
  /\ hook' = [updateGraphData(hook, WithNode(hook.closure, node))
                EXCEPT !.last = [op |-> "addNode", arg |-> node]]
  /\ UNCHANGED <<registry, calls, heap, topic, generated, data, verdict, response, parsed, viewer>>

\* addLink(link): updateGraphData({...graphData, links: [...graphData.links, link]})
AddLink(link) ==
  /\ Len(hook.closure.f.nodes.a) + Len(hook.closure.f.links.a) < MaxHookItems
  /\ hook' = [updateGraphData(hook, WithLink(hook.closure, link))
                EXCEPT !.last = [op |-> "addLink", arg |-> link]]
  /\ UNCHANGED <<registry, calls, heap, topic, generated, data, verdict, response, parsed, viewer>>

\* The component renders again after graphData was set: the callbacks the caller
\* holds from now on are those of this render.
Render ==
  /\ hook.closure # hook.graphData
  /\ hook' = [hook EXCEPT !.closure = hook.graphData,
                          !.last = [op |-> "render", arg |-> Undefined]]
  /\ UNCHANGED <<registry, calls, heap, topic, generated, data, verdict, response, parsed, viewer>>

NextHook ==
  \/ \E d \in HookGraphs : UpdateGraphData(d)
  \/ \E options \in FilterOptions : FilterGraph(options)
  \/ \E node \in NodesAdded : AddNode(node)
  \/ \E link \in LinksAdded : AddLink(link)
  \/ Render

SpecHook == InitHook /\ [][NextHook]_vars

---------------------------------------------------------------------------
(* GalaxyViewer (components/3d/GalaxyViewer.tsx): the node-detail panel.  The
   viewer is given a graph; a click selects a node and the panel lists the nodes
   the selected node is connected to. *)

ShownConnections == 5

\* data.nodes.find((n) => n.id === connectedId)
Find(nodes, connectedId) ==
  LET found == {i \in DOMAIN nodes : Get(nodes[i], "id") = connectedId}
  IN IF found = {} THEN Undefined ELSE nodes[CHOOSE i \in found : \A k \in found : i <= k]

\* connectedId, for a link the panel shows
ConnectedId(link, selectedNode) ==
  LET targetId == EndpointIdOf(Get(link, "target"))
      isTarget == EndpointIdOf(Get(link, "source")) = Get(selectedNode, "id")
  IN IF isTarget THEN targetId ELSE Get(link, "source")

\* The entries under "Connected to:": for the first links that touch the selected
\* node, the node found and the text shown, connectedNode?.name || 'Unknown'.
ConnectedTo(d, selectedNode) ==
  LET Touches(link) ==
        \/ EndpointIdOf(Get(link, "source")) = Get(selectedNode, "id")
        \/ EndpointIdOf(Get(link, "target")) = Get(selectedNode, "id")
      touching == SelectSeq(d.f.links.a, Touches)
      shown == SubSeq(touching, 1, IF Len(touching) < ShownConnections
                                   THEN Len(touching) ELSE ShownConnections)
      Entry(link) ==
        LET connectedNode == Find(d.f.nodes.a, ConnectedId(link, selectedNode))
        IN [connectedNode |-> connectedNode,
            text |-> IF Falsy(Get(connectedNode, "name"))
                     THEN Str(<<"U","n","k","n","o","w","n">>)
                     ELSE Get(connectedNode, "name")]
  IN [k \in DOMAIN shown |-> Entry(shown[k])]

\* The graphs the viewer is given are graphs validateGraphData accepts: three
\* nodes with at most MaxItems links among them, written with bare ids, with node
\* objects or mixed; and the generic generator's graph, as returned and as the
\* force-graph component leaves it.
ViewerLinks ==
  { PoolLink(Str(<<"a">>), Str(<<"b">>)),
    PoolLink(Str(<<"b">>), Str(<<"a">>)),
    PoolLink(NodeA, NodeC),
    PoolLink(NodeC, Str(<<"b">>)),
    PoolLink(Str(<<"c">>), Str(<<"c">>)) }

GenericViewerGraph ==
  generateGenericGraphData(<<"a">>, [j \in 1 .. NodesAfterRoot |-> 0])

InitViewer ==
  /\ registry = DUMMY_DATA_TEMPLATES
  /\ calls = <<>>
  /\ heap = <<>>
  /\ topic = <<>>
  /\ generated = Undefined
  /\ data = Undefined
  /\ verdict = Undefined
  /\ response = Undefined
  /\ parsed = Undefined
  /\ hook = Undefined
  /\ \E d \in {GenericViewerGraph, ResolveEndpoints(GenericViewerGraph)} \cup
              UNION {{GraphObj(<<NodeA, NodeB, NodeC>>, ls) : ls \in [1 .. m -> ViewerLinks]} :
                       m \in 0 .. MaxItems} :
       viewer = [data |-> d, selectedNode |-> Null, panel |-> <<>>]

\* handleNodeClick(node): setSelectedNode, and the panel is rendered.
NodeClick(node) ==
  /\ viewer' = [viewer EXCEPT !.selectedNode = node,
                              !.panel = ConnectedTo(viewer.data, node)]
  /\ UNCHANGED <<registry, calls, heap, topic, generated, data, verdict, response, parsed, hook>>

\* handleClosePanel(): setSelectedNode(null)
ClosePanel ==
  /\ viewer.selectedNode # Null
  /\ viewer' = [viewer EXCEPT !.selectedNode = Null, !.panel = <<>>]
  /\ UNCHANGED <<registry, calls, heap, topic, generated, data, verdict, response, parsed, hook>>

NextViewer ==
  \/ \E i \in DOMAIN viewer.data.f.nodes.a : NodeClick(viewer.data.f.nodes.a[i])
  \/ ClosePanel

SpecViewer == InitViewer /\ [][NextViewer]_vars

---------------------------------------------------------------------------
(* The reference reading of a graph, stated on the value alone. *)

\* A link endpoint taken as the bare id or as the id of the embedded node.
EndpointId(e) == IF e.t = "string" THEN e ELSE Get(e, "id")

NonEmptyString(v) == v.t = "string" /\ v.s # <<>>

ListOf(v) == IF v.t = "array" THEN v.a ELSE <<>>
NodesOf(d) == ListOf(Get(d, "nodes"))
LinksOf(d) == ListOf(Get(d, "links"))
NodeIdsOf(d) == {Get(NodesOf(d)[i], "id") : i \in DOMAIN NodesOf(d)}

\* Importance is a number in [0, 100], both bounds included.
ImportanceInRange(v) == v.t = "number" /\ 0 <= v.n /\ v.n <= 100 * RandomSteps

NodeFieldsOk(node) ==
  /\ NonEmptyString(Get(node, "id"))
  /\ NonEmptyString(Get(node, "name"))
  /\ ImportanceInRange(Get(node, "val"))
  /\ NonEmptyString(Get(node, "category"))

\* At least one node, every node's fields in order, ids pairwise distinct, and both
\* endpoints of every link non-empty ids of nodes of the graph.
GraphInvariants(d) ==
  LET nodes == NodesOf(d)
      links == LinksOf(d)
      ids == NodeIdsOf(d)
      Resolves(e) == ~Falsy(EndpointId(e)) /\ EndpointId(e) \in ids
  IN /\ Get(d, "nodes").t = "array"
     /\ Get(d, "links").t = "array"
     /\ nodes # <<>>
     /\ \A i \in DOMAIN nodes : NodeFieldsOk(nodes[i])
     /\ \A i, k \in DOMAIN nodes : i # k => Get(nodes[i], "id") # Get(nodes[k], "id")
     /\ \A j \in DOMAIN links :
          Resolves(Get(links[j], "source")) /\ Resolves(Get(links[j], "target"))

---------------------------------------------------------------------------
(* fetchGraphData: what callers receive. *)

Settled(i) == calls[i].settled.state # "pending"
IsFulfilled(i) == calls[i].settled.state = "fulfilled"
IsRejected(i) == calls[i].settled.state = "rejected"
TemplateKeyOf(i) == NormalizeTopic(calls[i].topic)
IsTemplateTopic(i) == TemplateKeyOf(i) \in DOMAIN DUMMY_DATA_TEMPLATES

\* C1: every graph a fetchGraphData call resolves with, whatever the topic,
\* satisfies all graph invariants: at least one node, node fields in order, unique
\* ids, every link endpoint the id of a node.  No other graph is ever returned.
C1_FetchedGraphsSatisfyInvariants ==
  \A i \in DOMAIN calls : IsFulfilled(i) => GraphInvariants(calls[i].settled.value)

\* One call resolved with a graph and another was rejected by the validator.
C1_Witness ==
  \E i, k \in DOMAIN calls :
    /\ IsFulfilled(i)
    /\ IsRejected(k) /\ calls[k].settled.error.type = "Error"

\* C2: every call on a topic that normalizes to a key of the template registry
\* resolves with a graph the validator accepts.
C2_TemplateTopicsResolveValid ==
  \A i \in DOMAIN calls :
    Settled(i) /\ IsTemplateTopic(i) =>
      /\ IsFulfilled(i)
      /\ validateGraphData(calls[i].settled.value).outcome = Returned("true")

\* C3: any two settled calls on topics of the same template key settled alike, with
\* equal graphs, whatever ran in between and whatever a caller did to a graph it
\* had received; and the registry is what it was at initialization.
C3_TemplatesDeterministicRegistryReadOnly ==
  /\ registry = DUMMY_DATA_TEMPLATES
  /\ \A i, k \in DOMAIN calls :
       Settled(i) /\ Settled(k) /\ IsTemplateTopic(i) /\ TemplateKeyOf(i) = TemplateKeyOf(k) =>
         /\ calls[i].settled.state = calls[k].settled.state
         /\ calls[i].settled.value = calls[k].settled.value
         /\ calls[i].settled.error = calls[k].settled.error

\* Two calls of one template key both resolved, and the graph object the first
\* one returned has been edited by its caller since.
C3_Witness ==
  \E i, k \in DOMAIN calls :
    /\ i # k /\ IsFulfilled(i) /\ IsFulfilled(k)
    /\ IsTemplateTopic(i) /\ TemplateKeyOf(i) = TemplateKeyOf(k)
    /\ heap[calls[i].settled.ref].edits > 0
    /\ heap[calls[i].settled.ref].value # calls[i].settled.value
    /\ heap[calls[k].settled.ref].edits = 0

\* C4: every call on a topic that is not a key of the template registry, the empty
\* string, white-space-only and non-ASCII strings included, resolves with a graph
\* the validator accepts.
C4_OtherTopicsResolveValid ==
  \A i \in DOMAIN calls :
    Settled(i) /\ ~IsTemplateTopic(i) =>
      /\ IsFulfilled(i)
      /\ validateGraphData(calls[i].settled.value).outcome = Returned("true")

---------------------------------------------------------------------------
(* generateGenericGraphData: the graph it builds. *)

\* The ids reachable from the ids in seen by links followed from source to target.
RECURSIVE ReachableFrom(_, _)
ReachableFrom(links, seen) ==
  LET more == {EndpointId(Get(links[j], "target")) :
                 j \in {m \in DOMAIN links : EndpointId(Get(links[m], "source")) \in seen}}
  IN IF more \subseteq seen THEN seen ELSE ReachableFrom(links, seen \cup more)

\* C5: for every topic string the generated graph has exactly one node of
\* importance 100, the root, whose id is the normalized topic, and every other node
\* is reachable from the root along links from source to target.
C5_GenericGraphOneRootAllReachable ==
  generated # Undefined =>
    LET nodes == NodesOf(generated)
        roots == {i \in DOMAIN nodes : Get(nodes[i], "val") = Number(100)}
        rootId == Str(NormalizeTopic(topic))
        reached == ReachableFrom(LinksOf(generated), {rootId})
    IN /\ Cardinality(roots) = 1
       /\ \A i \in roots : Get(nodes[i], "id") = rootId
       /\ \A i \in DOMAIN nodes \ roots : Get(nodes[i], "id") \in reached

\* The generator has returned for a topic that normalization changes, with the
\* greatest draw among its draws.
C5_Witness ==
  /\ generated # Undefined
  /\ NormalizeTopic(topic) # topic
  /\ \E i \in DOMAIN NodesOf(generated) :
       Get(NodesOf(generated)[i], "val") = ConceptVal(RandomSteps - 1)

\* C6: for every string, the empty, the white-space-only, the mixed-case and the
\* non-ASCII ones included, the generator returns a graph, and in it no two nodes
\* share an id: the root id, the -concept-N ids and the -sub-N ids are pairwise
\* distinct.
C6_GenericGeneratorReturnsUniqueIds ==
  generated # Undefined =>
    LET nodes == NodesOf(generated)
    IN /\ Get(generated, "nodes").t = "array" /\ Get(generated, "links").t = "array"
       /\ Len(nodes) = 1 + NodesAfterRoot
       /\ \A i \in DOMAIN nodes : Get(nodes[i], "id").t = "string"
       /\ \A i, k \in DOMAIN nodes : i # k => Get(nodes[i], "id") # Get(nodes[k], "id")

\* The generator has returned for the empty string: the root's id is empty.
C6_Witness ==
  /\ generated # Undefined
  /\ topic = <<>>
  /\ Get(NodesOf(generated)[1], "id") = Str(<<>>)

---------------------------------------------------------------------------
(* validateGraphData: what it decides, in which order, and what it reports. *)

Validated == verdict # Undefined

NodeChecks == <<"node.id", "node.name", "node.val", "node.category", "node.duplicate">>
LinkChecks == <<"link.endpoints", "link.source", "link.target">>
CheckSequence(d) ==
  <<Check("nodes.array", 0), Check("links.array", 0), Check("nodes.nonempty", 0)>>
  \o [p \in 1 .. Len(NodeChecks) * Len(NodesOf(d)) |->
        Check(NodeChecks[((p - 1) % Len(NodeChecks)) + 1], ((p - 1) \div Len(NodeChecks)) + 1)]
  \o [p \in 1 .. Len(LinkChecks) * Len(LinksOf(d)) |->
        Check(LinkChecks[((p - 1) % Len(LinkChecks)) + 1], ((p - 1) \div Len(LinkChecks)) + 1)]

\* Whether the graph violates what one check asks, taken on its own.
CheckFails(d, c) ==
  LET nodes == NodesOf(d)
      links == LinksOf(d)
      Source(j) == EndpointId(Get(links[j], "source"))
      Target(j) == EndpointId(Get(links[j], "target"))
  IN CASE c.check = "nodes.array" -> Get(d, "nodes").t # "array"
       [] c.check = "links.array" -> Get(d, "links").t # "array"
       [] c.check = "nodes.nonempty" -> nodes = <<>>
       [] c.check = "node.id" -> ~NonEmptyString(Get(nodes[c.index], "id"))
       [] c.check = "node.name" -> ~NonEmptyString(Get(nodes[c.index], "name"))
       [] c.check = "node.val" -> ~ImportanceInRange(Get(nodes[c.index], "val"))
       [] c.check = "node.category" -> ~NonEmptyString(Get(nodes[c.index], "category"))
       [] c.check = "node.duplicate" ->
            \E k \in 1 .. c.index - 1 : Get(nodes[k], "id") = Get(nodes[c.index], "id")
       [] c.check = "link.endpoints" -> Falsy(Source(c.index)) \/ Falsy(Target(c.index))
       [] c.check = "link.source" -> Source(c.index) \notin NodeIdsOf(d)
       [] c.check = "link.target" -> Target(c.index) \notin NodeIdsOf(d)

\* The error each check reports.
MessageOf(check) ==
  CASE check = "nodes.array" -> "Invalid graph data: missing or invalid nodes array"
    [] check = "links.array" -> "Invalid graph data: missing or invalid links array"
    [] check = "nodes.nonempty" -> "Invalid graph data: nodes array is empty"
    [] check = "node.id" -> "Invalid node: missing or non-string id"
    [] check = "node.name" -> "Invalid node ${node.id}: missing or non-string name"
    [] check = "node.val" -> "Invalid node ${node.id}: val must be a number between 0-100"
    [] check = "node.category" -> "Invalid node ${node.id}: missing or non-string category"
    [] check = "node.duplicate" -> "Duplicate node id: ${node.id}"
    [] check = "link.endpoints" -> "Invalid link: source and target must be specified"
    [] check = "link.source" -> "Invalid link: source node ${sourceId} not found in nodes"
    [] check = "link.target" -> "Invalid link: target node ${targetId} not found in nodes"

\* The check meets a value it cannot read a property of: the graph, a node, a link
\* or an embedded endpoint that is null or absent.
MeetsUnreadable(d, c) ==
  LET Absent(e) == e.t \in {"undefined", "null"}
  IN \/ c.check = "nodes.array" /\ Absent(d)
     \/ c.check = "node.id" /\ Absent(NodesOf(d)[c.index])
     \/ c.check = "link.endpoints" /\
          \/ Absent(LinksOf(d)[c.index])
          \/ Absent(Get(LinksOf(d)[c.index], "source"))
          \/ Absent(Get(LinksOf(d)[c.index], "target"))

FailingChecks(d) ==
  LET seq == CheckSequence(d) IN {p \in DOMAIN seq : CheckFails(d, seq[p])}
FirstFailing(d) ==
  LET failing == FailingChecks(d) IN CHOOSE p \in failing : \A q \in failing : p <= q

EmptyNodesError == Error("Invalid graph data: nodes array is empty", <<>>)

\* C9 (as amended): validateGraphData rejects every graph whose node list is empty
\* and whose link collection is a list with the empty-node-set error, having
\* performed the three container checks and nothing else: the outcome is the same
\* whatever the link list holds.
C9_EmptyNodeListRejectedFirst ==
  Validated /\ Get(data, "nodes") = Arr(<<>>) /\ Get(data, "links").t = "array" =>
    /\ verdict.outcome = EmptyNodesError
    /\ verdict.trace =
         <<Check("nodes.array", 0), Check("links.array", 0), Check("nodes.nonempty", 0)>>

\* An empty node list with a link list whose links would each fail on their own:
\* a null link and a link to a node that does not exist.
C9_Witness ==
  /\ Validated
  /\ Get(data, "nodes") = Arr(<<>>)
  /\ Null \in {LinksOf(data)[j] : j \in DOMAIN LinksOf(data)}
  /\ PoolLink(Str(<<"a">>), Str(<<"c">>)) \in {LinksOf(data)[j] : j \in DOMAIN LinksOf(data)}
  /\ verdict.outcome = EmptyNodesError

\* C9 (as stated): validateGraphData rejects every graph whose node list is empty
\* with the empty-node-set error.
C9_EmptyNodeListAlwaysEmptyError ==
  Validated /\ Get(data, "nodes") = Arr(<<>>) => verdict.outcome = EmptyNodesError

\* Every node passes: the containers are lists, the node list is non-empty, every
\* node's fields are in order and the ids are pairwise distinct.
AllNodesPass(d) ==
  LET nodes == NodesOf(d)
  IN /\ Get(d, "nodes").t = "array" /\ Get(d, "links").t = "array"
     /\ nodes # <<>>
     /\ \A i \in DOMAIN nodes : NodeFieldsOk(nodes[i])
     /\ \A i, k \in DOMAIN nodes : i # k => Get(nodes[i], "id") # Get(nodes[k], "id")

SourceIdOf(d, j) == EndpointId(Get(LinksOf(d)[j], "source"))
TargetIdOf(d, j) == EndpointId(Get(LinksOf(d)[j], "target"))

\* An endpoint id that is given and is not the id of any node.
Dangles(d, id) == ~Falsy(id) /\ id \notin NodeIdsOf(d)
DanglingLinks(d) ==
  {j \in DOMAIN LinksOf(d) : Dangles(d, SourceIdOf(d, j)) \/ Dangles(d, TargetIdOf(d, j))}
FirstDangling(d) == CHOOSE j \in DanglingLinks(d) : \A m \in DanglingLinks(d) : j <= m

\* A link with an empty or unresolvable endpoint.
EndpointMissing(d, j) == Falsy(SourceIdOf(d, j)) \/ Falsy(TargetIdOf(d, j))

\* The dangling-reference error for link j: the source side if the source dangles,
\* else the target side, with the id of that side.
DanglingErrorOf(d, j) ==
  IF Dangles(d, SourceIdOf(d, j))
  THEN Error("Invalid link: source node ${sourceId} not found in nodes", ToStr(SourceIdOf(d, j)))
  ELSE Error("Invalid link: target node ${targetId} not found in nodes", ToStr(TargetIdOf(d, j)))

\* C10 (as amended): a graph whose nodes all pass and which contains a link with a
\* dangling source or target id is rejected; and when no link up to and including
\* the first such link has an empty or unresolvable endpoint, the error names the
\* unresolved id of that link and its side: the source if the source dangles,
\* otherwise the target, whose reported id is the link's actual target.
C10_DanglingLinkRejectedAndNamed ==
  Validated /\ AllNodesPass(data) /\ DanglingLinks(data) # {} =>
    /\ verdict.outcome.type # "return"
    /\ (\A j \in 1 .. FirstDangling(data) : ~EndpointMissing(data, j)) =>
         verdict.outcome = DanglingErrorOf(data, FirstDangling(data))

\* The second link is the first dangling one, on its target side, after a link
\* that resolves; the error names its target.
C10_Witness ==
  /\ Validated /\ AllNodesPass(data)
  /\ DanglingLinks(data) # {} /\ FirstDangling(data) = 2
  /\ ~Dangles(data, SourceIdOf(data, 2))
  /\ \A j \in 1 .. 2 : ~EndpointMissing(data, j)
  /\ verdict.outcome.arg = ToStr(TargetIdOf(data, 2))

\* C10 (as stated): a graph whose nodes all pass and which contains a link with a
\* dangling source or target id is rejected with an error that names the
\* unresolved id of the first such link and its side.
C10_DanglingLinkAlwaysNamed ==
  Validated /\ AllNodesPass(data) /\ DanglingLinks(data) # {} =>
    verdict.outcome = DanglingErrorOf(data, FirstDangling(data))


---------------------------------------------------------------------------
(* validateGraphData: the errors of single checks. *)

\* Two elements of the node list carry the same id.
SharesId(d) ==
  \E i, k \in DOMAIN NodesOf(d) :
    i # k /\ Get(NodesOf(d)[i], "id") = Get(NodesOf(d)[k], "id")

FirstFailingCheck(d) == CheckSequence(d)[FirstFailing(d)]

\* C11: validateGraphData rejects every graph in which two nodes share an id; and
\* when the duplicate is the first violation met, it stops at the second
\* occurrence of the id, the first node that repeats an earlier one, with the
\* duplicate-id error that reports that id.
C11_DuplicateIdRejectedAndReported ==
  Validated /\ SharesId(data) =>
    /\ verdict.outcome.type # "return"
    /\ FirstFailingCheck(data).check = "node.duplicate" =>
         LET nodes == NodesOf(data)
             i == FirstFailingCheck(data).index
         IN /\ verdict.outcome =
                 Error("Duplicate node id: ${node.id}", ToStr(Get(nodes[i], "id")))
            /\ verdict.trace[Len(verdict.trace)] = Check("node.duplicate", i)
            /\ \E k \in 1 .. i - 1 : Get(nodes[k], "id") = Get(nodes[i], "id")
            /\ \A m \in 1 .. i - 1 : \A k \in 1 .. m - 1 :
                 Get(nodes[k], "id") # Get(nodes[m], "id")

\* Three nodes of one id: the error is raised at the second.
C11_Witness ==
  /\ Validated
  /\ NodesOf(data) = <<NodeA, NodeA2, NodeA>>
  /\ verdict.outcome = Error("Duplicate node id: ${node.id}", <<"a">>)
  /\ verdict.trace[Len(verdict.trace)] = Check("node.duplicate", 2)

\* Every link before the j-th has both endpoints given and among the node ids.
LinksBeforePass(d, j) ==
  \A m \in 1 .. j - 1 :
    /\ ~EndpointMissing(d, m)
    /\ SourceIdOf(d, m) \in NodeIdsOf(d) /\ TargetIdOf(d, m) \in NodeIdsOf(d)

MissingEndpointError == Error("Invalid link: source and target must be specified", <<>>)

\* C12: when the first link that does not pass has an empty or unresolvable source
\* or target (an empty string, an absent or null endpoint, an embedded object
\* without id), validateGraphData aborts with the missing-endpoint error.
C12_MissingEndpointAlwaysReported ==
  Validated /\ AllNodesPass(data) =>
    \A j \in DOMAIN LinksOf(data) :
      LinksOf(data)[j].t = "object" /\ EndpointMissing(data, j) /\ LinksBeforePass(data, j) =>
        verdict.outcome = MissingEndpointError

\* C13: when the first check that fails is a field check of a node (id, name,
\* importance, category), validateGraphData aborts with that check's error, which
\* carries the node's id, or says the id is missing when the id check failed.
C13_NodeFieldErrorIdentifiesNode ==
  Validated /\ FailingChecks(data) # {} =>
    LET c == FirstFailingCheck(data)
    IN c.check \in {"node.id", "node.name", "node.val", "node.category"} =>
         verdict.outcome =
           Error(MessageOf(c.check),
                 IF c.check = "node.id" THEN <<>>
                 ELSE ToStr(Get(NodesOf(data)[c.index], "id")))


---------------------------------------------------------------------------
(* parseGraphDataResponse: what it returns and how it fails. *)

Parsed == parsed # Undefined
ParseErrorMessage ==
  "Invalid JSON response from Claude: ${error.message}. Ensure system prompt enforces strict JSON output."
LinksArrayError == Error("Invalid graph data: missing or invalid links array", <<>>)

\* {"nodes": [], "links": []}
EmptyGraphText ==
  JsonObject(<<JsonMember("nodes", JsonArray(<<>>)), JsonMember("links", JsonArray(<<>>))>>)

\* C14 (as amended): parseGraphDataResponse on the text {"nodes": []} fails, and
\* the failure is the missing-link-collection rejection; on {"nodes": [], "links": []}
\* it fails with the empty-node-set rejection.
C14_NodesOnlyTextRejectedForLinks ==
  Parsed =>
    /\ response = NodesOnlyText => parsed = Threw(LinksArrayError)
    /\ response = EmptyGraphText => parsed = Threw(EmptyNodesError)

\* The parser has been called on {"nodes": []} and has thrown.
C14_Witness ==
  Parsed /\ response = NodesOnlyText /\ parsed.state = "threw"

\* C14 (as stated): parseGraphDataResponse on the text {"nodes": []} fails with the
\* empty-node-set rejection.
C14_NodesOnlyTextRejectedAsEmpty ==
  Parsed /\ response = NodesOnlyText => parsed = Threw(EmptyNodesError)

\* The messages of the validator's own errors.
ValidatorMessages ==
  {MessageOf(c) : c \in {"nodes.array", "links.array", "nodes.nonempty"}
                        \cup {NodeChecks[i] : i \in DOMAIN NodeChecks}
                        \cup {LinkChecks[i] : i \in DOMAIN LinkChecks}}

C16_ReturnsParsedInputOrFails ==
  Parsed =>
    /\ parsed.state = "returned" =>
         /\ response.j # "none"
         /\ parsed.value = Revive(response)
         /\ GraphInvariants(parsed.value)
    /\ response.j = "none" => parsed.state = "threw"
    /\ response.j # "none" /\ ~GraphInvariants(Revive(response)) => parsed.state = "threw"

\* A graph was returned for a text of two nodes and a link.
C16_Witness ==
  /\ Parsed /\ parsed.state = "returned"
  /\ Len(NodesOf(parsed.value)) = 2 /\ Len(LinksOf(parsed.value)) = 1

NodeIdSeq(d) == [i \in DOMAIN NodesOf(d) |-> Get(NodesOf(d)[i], "id")]
EndpointPairs(d) ==
  [j \in DOMAIN LinksOf(d) |->
     <<EndpointId(Get(LinksOf(d)[j], "source")), EndpointId(Get(LinksOf(d)[j], "target"))>>]

\* C17: for every graph g of the template registry, parseGraphDataResponse on
\* JSON.stringify(g) returns a graph the validator accepts, with the node ids and
\* the (source, target) pairs of g.
C17_TemplateRoundTrip ==
  Parsed /\ TemplateText(response) =>
    /\ parsed.state = "returned"
    /\ validateGraphData(parsed.value).outcome = Returned("true")
    /\ \E key \in DOMAIN DUMMY_DATA_TEMPLATES :
         LET g == CallTemplate(DUMMY_DATA_TEMPLATES[key])
         IN /\ NodeIdSeq(parsed.value) = NodeIdSeq(g)
            /\ EndpointPairs(parsed.value) = EndpointPairs(g)


---------------------------------------------------------------------------
(* fetchGraphData: which branch serves a topic. *)

MachineLearningTopic == <<"m","a","c","h","i","n","e"," ","l","e","a","r","n","i","n","g">>

\* The graph has a root of the given id, with importance 100 and category topic,
\* and no target of a link out of the root has a link back to the root.
RootedWithoutBackLinks(g, rootId) ==
  LET nodes == NodesOf(g)
      links == LinksOf(g)
      Source(j) == EndpointId(Get(links[j], "source"))
      Target(j) == EndpointId(Get(links[j], "target"))
  IN /\ \E r \in DOMAIN nodes :
          /\ Get(nodes[r], "id") = Str(rootId)
          /\ Get(nodes[r], "val") = Number(100)
          /\ Get(nodes[r], "category") = Str(<<"t","o","p","i","c">>)
     /\ \A j, m \in DOMAIN links :
          Source(j) = Str(rootId) /\ Source(m) = Target(j) => Target(m) # Str(rootId)

\* C18: fetchGraphData("machine learning") resolves with a graph whose root has
\* id machine-learning, importance 100 and category topic, and in which no target
\* of one of the root's links has a link back to the root.
C18_MachineLearningGraphReturned ==
  \A i \in DOMAIN calls :
    Settled(i) /\ calls[i].topic = MachineLearningTopic =>
      /\ IsFulfilled(i)
      /\ RootedWithoutBackLinks(calls[i].settled.value, NormalizeTopic(MachineLearningTopic))

\* What call i would settle with had the generic generator served its topic.
SettledAsGeneric(i) ==
  \E draws \in ExtremeDraws :
    LET g == generateGenericGraphData(calls[i].topic, draws)
        checked == validateGraphData(g).outcome
    IN IF checked.type = "return"
       THEN /\ IsFulfilled(i) /\ calls[i].settled.value = g
            /\ Get(NodesOf(g)[1], "id") = Str(TemplateKeyOf(i))
       ELSE IsRejected(i) /\ calls[i].settled.error = checked

\* What call i would settle with had the registry entry of its key served it.
SettledAsTemplate(i) ==
  LET g == CallTemplate(DUMMY_DATA_TEMPLATES[TemplateKeyOf(i)])
      checked == validateGraphData(g).outcome
  IN IF checked.type = "return"
     THEN IsFulfilled(i) /\ calls[i].settled.value = g
     ELSE IsRejected(i) /\ calls[i].settled.error = checked

\* C19: a call is served by the template branch if and only if its normalized
\* topic is exactly a key of the registry; every other topic is served by the
\* generic generator, whose graph has the normalized topic as root id.
C19_TemplateOnExactKeyElseGeneric ==
  \A i \in DOMAIN calls :
    Settled(i) =>
      IF IsTemplateTopic(i) THEN SettledAsTemplate(i) ELSE SettledAsGeneric(i)

\* C20: validateGraphData has no side effect: whenever it has run, on an accepted
\* or a rejected input, the graph passed in is what it was before the call, and
\* nothing but the call's own outcome has changed.
C20_ValidateLeavesInputAndStateUnchanged ==
  [][verdict' # verdict =>
       /\ data' = data
       /\ UNCHANGED <<registry, calls, heap, topic, generated,
                      response, parsed, hook, viewer>>]_vars

\* The validator has accepted a graph with a link whose endpoints are embedded
\* nodes, and the graph still holds that link.
C20_Witness ==
  /\ Validated /\ verdict.outcome = Returned("true")
  /\ \E j \in DOMAIN LinksOf(data) : LinksOf(data)[j] = PoolLink(NodeA, NodeB)


---------------------------------------------------------------------------
(* What reaches rendering: categories and descriptions. *)

CategoryValid(node) ==
  Get(node, "category").t = "string" /\ Get(node, "category").s \in NodeCategory
DescriptionPresent(node) == NonEmptyString(Get(node, "description"))

\* C21: every graph parseGraphDataResponse returns has, on every node, a category
\* among concept, person, topic, resource, skill, project, other, and a
\* description; a graph failing either is not returned.
C21_ReturnedNodesCategorizedAndDescribed ==
  Parsed /\ parsed.state = "returned" =>
    \A i \in DOMAIN NodesOf(parsed.value) :
      CategoryValid(NodesOf(parsed.value)[i]) /\ DescriptionPresent(NodesOf(parsed.value)[i])


---------------------------------------------------------------------------
(* fetchGraphData: failures of its own sources. *)

\* Call i settled as validateGraphData settles graph g: rejected with the error
\* of the check g fails, or resolved with g itself.
SettledAsValidated(i, g) ==
  IF IsFulfilled(i)
  THEN /\ calls[i].settled.value = g
       /\ validateGraphData(g).outcome.type = "return"
  ELSE /\ validateGraphData(g).outcome.type # "return"
       /\ calls[i].settled = Rejected(validateGraphData(g).outcome)

\* C22: when the graph a template or the generic generator built fails a
\* validator check, the fetchGraphData call is rejected with that check's error;
\* when it passes, the call resolves with that very graph.  No call resolves with
\* an invalid graph or with the graph of another source.  The graph the source
\* built is the template's literal, or the generic generator's graph for some
\* pattern of draws.
C22_SourceValidationFailureIsFatal ==
  \A i \in DOMAIN calls :
    Settled(i) =>
      LET generator == Lookup(registry, TemplateKeyOf(i))
      IN CASE generator.kind = "template" ->
                SettledAsValidated(i, CallTemplate(generator.name))
           [] generator.kind = "undefined" ->
                \E draws \in DrawsOf(registry, calls[i].topic) :
                  SettledAsValidated(i, generateGenericGraphData(calls[i].topic, draws))
           [] OTHER -> TRUE

\* A template call and a generic-generator call were both rejected with the
\* validator's error for the graph their source built.
C22_Witness ==
  \E i, k \in DOMAIN calls :
    /\ IsRejected(i) /\ Lookup(registry, TemplateKeyOf(i)).kind = "template"
    /\ calls[i].settled.error.type = "Error"
    /\ IsRejected(k) /\ Lookup(registry, TemplateKeyOf(k)).kind = "undefined"
    /\ calls[k].settled.error.type = "Error"


---------------------------------------------------------------------------
(* fetchGraphData: calls pending together. *)

\* A graph with the importance of every node left out.
WithoutImportance(g) ==
  IF g = Undefined THEN Undefined
  ELSE Obj([g.f EXCEPT !.nodes =
              Arr([k \in DOMAIN g.f.nodes.a |->
                     Obj([f \in DOMAIN g.f.nodes.a[k].f \ {"val"} |-> g.f.nodes.a[k].f[f]])])])

\* The settlements of fetchGraphData(t) called alone, in the state the module is
\* in after it loaded, one for each pattern of draws.
Alone(t) ==
  {fetchGraphData(DUMMY_DATA_TEMPLATES, <<>>, <<>>, 1, t, draws).settled :
     draws \in DrawsOf(DUMMY_DATA_TEMPLATES, t)}

\* C23: whatever calls are pending together and however their timers and the
\* calls of validateGraphData, parseGraphDataResponse and
\* generateGenericGraphData interleave, each fetchGraphData call settles as it
\* would alone: rejected with the same error, or resolved with the same graph up
\* to the importance values.
C23_ConcurrentCallsSettleAsAlone ==
  \A i \in DOMAIN calls :
    Settled(i) =>
      \E alone \in Alone(calls[i].topic) :
        /\ calls[i].settled.state = alone.state
        /\ calls[i].settled.error = alone.error
        /\ WithoutImportance(calls[i].settled.value) = WithoutImportance(alone.value)

\* Two calls of different topics were pending together, the later one settled
\* first, and a validateGraphData, a parseGraphDataResponse and a
\* generateGenericGraphData call ran in between.
C23_Witness ==
  /\ Len(calls) = 2
  /\ calls[1].topic # calls[2].topic
  /\ calls[1].settled.state = "pending" /\ IsFulfilled(2)
  /\ verdict # Undefined /\ parsed # Undefined /\ generated # Undefined


---------------------------------------------------------------------------
(* generateGenericGraphData: topology and what the draws decide. *)

\* The ids of the nodes and the endpoints of the links, by position.
IdsByPosition(g) == <<>> \o [i \in DOMAIN NodesOf(g) |-> Get(NodesOf(g)[i], "id")]
SourcesByPosition(g) == <<>> \o [j \in DOMAIN LinksOf(g) |-> Get(LinksOf(g)[j], "source")]
TargetsByPosition(g) == <<>> \o [j \in DOMAIN LinksOf(g) |-> Get(LinksOf(g)[j], "target")]

\* C24: for every topic the generated graph has one root of importance 100 and
\* category "topic", 6 second-tier nodes of category "concept" each entered by
\* exactly one link, which comes from the root, and 3 leaves under each second-tier
\* node each entered by exactly one link, which comes from that node; 25 nodes and
\* 24 links in all, every endpoint a bare id, and no link into the root.
C24_GenericTopologyFixed ==
  generated # Undefined =>
    LET nodes == NodesOf(generated)
        ids == IdsByPosition(generated)
        sources == SourcesByPosition(generated)
        targets == TargetsByPosition(generated)
        LinksInto(i) == {j \in DOMAIN targets : targets[j] = ids[i]}
        ChildrenOf(i) ==
          {k \in DOMAIN ids : \E j \in DOMAIN sources : sources[j] = ids[i] /\ targets[j] = ids[k]}
        secondTier == ChildrenOf(1)
        leaves == UNION {ChildrenOf(s) : s \in secondTier}
    IN /\ Len(ids) = 25 /\ Len(sources) = 24
       /\ Get(nodes[1], "val") = Number(100)
       /\ Get(nodes[1], "category") = Str(<<"t","o","p","i","c">>)
       /\ Cardinality(secondTier) = 6
       /\ \A s \in secondTier :
            /\ Get(nodes[s], "category") = Str(<<"c","o","n","c","e","p","t">>)
            /\ Cardinality(LinksInto(s)) = 1
            /\ LET under == ChildrenOf(s)
               IN /\ Cardinality(under) = 3
                  /\ \A l \in under :
                       /\ Cardinality(LinksInto(l)) = 1
                       /\ \A j \in LinksInto(l) : sources[j] = ids[s]
       /\ 1 \notin secondTier \cup leaves
       /\ secondTier \cap leaves = {}
       /\ {1} \cup secondTier \cup leaves = DOMAIN ids
       /\ LinksInto(1) = {}
       /\ \A j \in DOMAIN sources : sources[j].t = "string" /\ targets[j].t = "string"

\* The generator has returned for a topic of two white-space characters.
C24_Witness ==
  /\ generated # Undefined
  /\ Len(topic) = 2 /\ \A k \in DOMAIN topic : topic[k] \in WhiteSpace
  /\ Len(LinksOf(generated)) = 24


\* The run of the generator on the same topic with every draw 0.
ReferenceRun == generateGenericGraphData(topic, [j \in 1 .. NodesAfterRoot |-> 0])

\* Positions of the second-tier nodes, which a link from the root leads to, and of
\* the leaves, which are the rest.
SecondTier(g) ==
  LET ids == IdsByPosition(g)
      sources == SourcesByPosition(g)
      targets == TargetsByPosition(g)
  IN {k \in DOMAIN ids : \E j \in DOMAIN sources : sources[j] = ids[1] /\ targets[j] = ids[k]}
Leaves(g) == (DOMAIN NodesOf(g) \ {1}) \ SecondTier(g)
ImportanceAt(g, i) == Get(NodesOf(g)[i], "val").n

\* Apart from the importance of the nodes after the root, a run is the run with
\* every draw 0: ids, names, categories, descriptions and links, in order.
SameStructure ==
  /\ WithoutImportance(generated) = WithoutImportance(ReferenceRun)
  /\ Get(NodesOf(generated)[1], "val") = Get(NodesOf(ReferenceRun)[1], "val")

\* C25 (as amended): for the same topic, runs with different draws give the same
\* node ids in the same order, the same names and categories and the same link
\* endpoint pairs; they differ only in the importance of the nodes after the
\* root, which is in [70, 90] for second-tier nodes and in [40, 70] for leaves,
\* bounds included, so that no leaf's importance is above a second-tier node's.
C25_StructureFixedImportanceInClosedBands ==
  generated # Undefined =>
    LET second == SecondTier(generated)
        leaves == Leaves(generated)
    IN /\ SameStructure
       /\ \A s \in second : /\ 70 * RandomSteps <= ImportanceAt(generated, s)
                            /\ ImportanceAt(generated, s) <= 90 * RandomSteps
       /\ \A l \in leaves : /\ 40 * RandomSteps <= ImportanceAt(generated, l)
                            /\ ImportanceAt(generated, l) <= 70 * RandomSteps
       /\ \A s \in second, l \in leaves :
            ImportanceAt(generated, l) <= ImportanceAt(generated, s)

\* A run in which a leaf and a second-tier node both have importance exactly 70.
C25_Witness ==
  /\ generated # Undefined
  /\ \E s \in SecondTier(generated), l \in Leaves(generated) :
       /\ Get(NodesOf(generated)[s], "val") = Number(70)
       /\ Get(NodesOf(generated)[l], "val") = Number(70)

\* C25 (as stated): ... the importance is in [70, 90) for second-tier nodes and in
\* [40, 70) for leaves, so that every leaf's importance is below every second-tier
\* node's.
C25_StructureFixedImportanceInHalfOpenBands ==
  generated # Undefined =>
    LET second == SecondTier(generated)
        leaves == Leaves(generated)
    IN /\ SameStructure
       /\ \A s \in second : /\ 70 * RandomSteps <= ImportanceAt(generated, s)
                            /\ ImportanceAt(generated, s) < 90 * RandomSteps
       /\ \A l \in leaves : /\ 40 * RandomSteps <= ImportanceAt(generated, l)
                            /\ ImportanceAt(generated, l) < 70 * RandomSteps
       /\ \A s \in second, l \in leaves :
            ImportanceAt(generated, l) < ImportanceAt(generated, s)


---------------------------------------------------------------------------
(* useGraphData: the filtered view and the graph it is taken from. *)

HookCalled(h, op) == h.last.op = op

\* C26: a filterGraph call, whatever its options, changes filteredData only:
\* graphData, with its node list, its link list and every element of both, is
\* after the call what it was before, and so is everything else.
C26_FilterGraphLeavesGraphDataUnchanged ==
  [][HookCalled(hook', "filterGraph") =>
       /\ hook'.graphData = hook.graphData
       /\ hook'.closure = hook.closure
       /\ UNCHANGED <<registry, calls, heap, topic, generated, data, verdict,
                      response, parsed, viewer>>]_vars

\* filterGraph has been called and has left out a node of graphData.
C26_Witness ==
  /\ HookCalled(hook, "filterGraph")
  /\ hook.graphData = hook.closure
  /\ Len(NodesOf(hook.filteredData)) < Len(NodesOf(hook.graphData))

\* The elements of a list.
Elements(list) == {list[i] : i \in DOMAIN list}

\* A node meets every criterion the options supply: its category is in the list,
\* its importance is at least minValue and at most maxValue, and the query occurs
\* in its name or its description, capitals and small letters taken alike.
Supplied(options, k) == ~Falsy(Get(options, k)) \/ Get(options, k) = Num(0)
MeetsCriteria(node, options) ==
  /\ Supplied(options, "categories") /\ Get(options, "categories").a # <<>> =>
       Get(node, "category") \in Elements(Get(options, "categories").a)
  /\ Supplied(options, "minValue") => Get(node, "val").n >= Get(options, "minValue").n
  /\ Supplied(options, "maxValue") => Get(node, "val").n <= Get(options, "maxValue").n
  /\ Supplied(options, "searchQuery") =>
       \E field \in {"name", "description"} :
         /\ Get(node, field).t = "string"
         /\ StringIncludes(ToLowerCase(Get(node, field).s),
                           ToLowerCase(Get(options, "searchQuery").s))

\* C27: after any calls of updateGraphData, filterGraph, addNode and addLink the
\* nodes of filteredData are nodes of graphData and its links are links of
\* graphData; and right after a filterGraph call the nodes of filteredData are
\* exactly the nodes of graphData that meet every criterion supplied, and its
\* links exactly the links of graphData with both endpoints, bare id or node
\* object, among those nodes.
C27_FilteredViewIsPartOfGraphData ==
  LET nodes == NodesOf(hook.graphData)
      links == LinksOf(hook.graphData)
      shown == NodesOf(hook.filteredData)
      shownIds == {Get(shown[i], "id") : i \in DOMAIN shown}
      Between(link) == /\ EndpointId(Get(link, "source")) \in shownIds
                       /\ EndpointId(Get(link, "target")) \in shownIds
  IN /\ Elements(shown) \subseteq Elements(nodes)
     /\ Elements(LinksOf(hook.filteredData)) \subseteq Elements(links)
     /\ HookCalled(hook, "filterGraph") =>
          /\ Elements(shown) = {n \in Elements(nodes) : MeetsCriteria(n, hook.last.arg)}
          /\ Len(shown) = Cardinality({i \in DOMAIN nodes : MeetsCriteria(nodes[i], hook.last.arg)})
          /\ Elements(LinksOf(hook.filteredData)) = {l \in Elements(links) : Between(l)}
          /\ Len(LinksOf(hook.filteredData)) = Cardinality({j \in DOMAIN links : Between(links[j])})

\* Ids pairwise distinct and both endpoints of every link ids of nodes.
IdsDistinctAndLinksResolve(g) ==
  LET nodes == NodesOf(g)
      links == LinksOf(g)
  IN /\ \A i, k \in DOMAIN nodes : i # k => Get(nodes[i], "id") # Get(nodes[k], "id")
     /\ \A j \in DOMAIN links :
          /\ EndpointId(Get(links[j], "source")) \in NodeIdsOf(g)
          /\ EndpointId(Get(links[j], "target")) \in NodeIdsOf(g)

\* C28: once a graph the validator accepts was loaded, whatever addNode, addLink
\* and filterGraph calls follow, graphData and filteredData have pairwise
\* distinct node ids and every link's source and target is the id of one of
\* their nodes.
C28_HookGraphsStayValid ==
  hook.loaded =>
    /\ IdsDistinctAndLinksResolve(hook.graphData)
    /\ IdsDistinctAndLinksResolve(hook.filteredData)

\* One list continues another.
Continues(longer, shorter) ==
  Len(longer) >= Len(shorter) /\ SubSeq(longer, 1, Len(shorter)) = shorter

\* C29: no update is lost.  An addNode or addLink call, also one made through a
\* callback of the same render as an earlier call, leaves in graphData what the
\* calls before it put there and adds its own node or link; and a filterGraph
\* call that follows updateGraphData(d) filters d: filteredData is made of nodes
\* and links of d.
C29_NoHookUpdateLost ==
  [][/\ HookCalled(hook', "addNode") =>
          /\ Continues(NodesOf(hook'.graphData), NodesOf(hook.graphData))
          /\ LinksOf(hook'.graphData) = LinksOf(hook.graphData)
          /\ hook'.last.arg \in Elements(NodesOf(hook'.graphData))
     /\ HookCalled(hook', "addLink") =>
          /\ Continues(LinksOf(hook'.graphData), LinksOf(hook.graphData))
          /\ NodesOf(hook'.graphData) = NodesOf(hook.graphData)
          /\ hook'.last.arg \in Elements(LinksOf(hook'.graphData))
     /\ HookCalled(hook, "updateGraphData") /\ HookCalled(hook', "filterGraph") =>
          /\ Elements(NodesOf(hook'.filteredData)) \subseteq Elements(NodesOf(hook.last.arg))
          /\ Elements(LinksOf(hook'.filteredData)) \subseteq Elements(LinksOf(hook.last.arg))
          /\ hook'.last.arg = Obj(<<>>) => hook'.filteredData = hook.last.arg]_vars


---------------------------------------------------------------------------
(* GalaxyViewer: the nodes the panel lists. *)

\* The positions of the links that touch the node of the given id, in order.
RECURSIVE Ascending(_)
Ascending(S) ==
  IF S = {} THEN <<>>
  ELSE LET least == CHOOSE x \in S : \A y \in S : x <= y
       IN <<least>> \o Ascending(S \ {least})

IncidentLinks(d, id) ==
  Ascending({j \in DOMAIN LinksOf(d) :
               \/ EndpointId(Get(LinksOf(d)[j], "source")) = id
               \/ EndpointId(Get(LinksOf(d)[j], "target")) = id})

\* The id at the other end of a link from the node of the given id.
OtherEnd(link, id) ==
  IF EndpointId(Get(link, "source")) = id
  THEN EndpointId(Get(link, "target"))
  ELSE EndpointId(Get(link, "source"))

\* C30: for a graph the validator accepts and any selected node, the panel
\* resolves every link that touches the node, whether its endpoints are bare ids
\* or node objects and whether the node is its source or its target, to the node
\* at the other end, found in the node list of the graph.
C30_PanelResolvesEveryIncidentLink ==
  viewer.selectedNode # Null =>
    LET id == Get(viewer.selectedNode, "id")
        incident == IncidentLinks(viewer.data, id)
    IN /\ Len(viewer.panel) = Len(incident)
       /\ \A k \in DOMAIN incident :
            /\ viewer.panel[k].connectedNode \in Elements(NodesOf(viewer.data))
            /\ Get(viewer.panel[k].connectedNode, "id")
                 = OtherEnd(LinksOf(viewer.data)[incident[k]], id)

=============================================================================
